---- MODULE Spec2Model ----
(***************************************************************************)
(* Model of crates/codegen/src/lib.rs: the Dense Index Map (IdMap), the    *)
(* Module Generator (ModuleGen::add, add_extern, add_extern_userdata, run) *)
(* and the native code it emits, with an executor of that native code.     *)
(*                                                                         *)
(* Ids (FuncId, TmpId, VarId, BlockId) are zero-based as in the source; a  *)
(* sequence holding slot k stores it at index k + 1.                       *)
(***************************************************************************)
EXTENDS Integers, Sequences, FiniteSets, TLC

VARIABLES
    types,      \* ModuleGen.types: the typed functions, indexed by FuncId
    functions,  \* ModuleGen.functions: IdMap<FuncId, FunctionValue>
    module,     \* ModuleGen.module: the native functions, in creation order
    pc,         \* position of the running operation ("idle" between calls)
    res,        \* what the last finished operation returned
    fi,         \* add: index of the function the current loop is at
    bi,         \* add: BlockId being lowered
    si,         \* add: index of the next statement of that block
    func_val,   \* add: native function of the function being lowered
    tmp_map,    \* add: IdMap<TmpId, FuncOr<BasicValueEnum>>
    var_map,    \* add: IdMap<VarId, FuncOr<PointerValue>>
    block_map,  \* add: IdMap<BlockId, BasicBlock>
    main,       \* add: the entry FuncId the type checker designated
    entries,    \* the FuncIds add has returned so far
    regs,       \* history: one record per add_extern_userdata registration
    stack,      \* run: the call stack of the executing native code
    hostLog,    \* run: the host functions invoked, with their arguments
    lits,       \* the two integer literals of the arithmetic program
    nAdds, nRegs, nRuns,   \* operations called so far
    map,        \* a Dense Index Map exercised on its own
    mapHist,    \* history of the reserve/clear calls made on map
    CTX,        \* context(): the thread_local CTX of each thread (0: not yet initialised)
    contexts,   \* the native contexts that exist
    codeGens,   \* the CodeGen values created so far
    moduleGens  \* the ModuleGen values CodeGen::module has returned so far

vars == <<types, functions, module, pc, res, fi, bi, si, func_val, tmp_map,
          var_map, block_map, main, entries, regs, stack, hostLog, lits,
          nAdds, nRegs, nRuns, map, mapHist, CTX, contexts, codeGens, moduleGens>>

genVars == <<types, functions, module, pc, res, fi, bi, si, func_val, tmp_map,
             var_map, block_map, main, entries, regs, stack, hostLog, lits,
             nAdds, nRegs, nRuns>>

mapVars == <<map, mapHist>>

ctxVars == <<CTX, contexts, codeGens, moduleGens>>

-----------------------------------------------------------------------------
(* Bounds of the model *)

MaxAdds == 2
\* calls of add in a session that draws from a whole catalogue of programs
\* or a whole range of literals
MaxAddsWide == 1
MaxRegs == 2
MaxRuns == 1
MaxDepth == 3
MaxReserve == 3
\* calls of add, add_extern, add_extern_userdata and run in one session
MaxCalls == 4
MaxThreads == 2
\* CodeGens and ModuleGens made in one session
MaxGens == 6

-----------------------------------------------------------------------------
(* 32-bit two's complement integers.  TLC's own integers are 32 bits wide  *)
(* and trap on overflow, so wrapping results are computed on 8-bit limbs.  *)

I32_MAX == 2147483647
I32_MIN == (-2147483647) - 1

\* the four bytes of the two's complement representation, least significant first
Bytes(a) ==
    LET hi == a \div 65536
        lo == a % 65536
    IN  <<lo % 256, lo \div 256, hi % 256, (hi \div 256) % 256>>

\* the signed integer four bytes represent
FromBytes(r) ==
    (IF r[4] >= 128 THEN r[4] - 256 ELSE r[4]) * 16777216
        + r[3] * 65536 + r[2] * 256 + r[1]

\* carry propagation over four column sums, dropping the carry out of bit 31
Carry(c) ==
    LET r1 == c[1]
        r2 == c[2] + (r1 \div 256)
        r3 == c[3] + (r2 \div 256)
        r4 == c[4] + (r3 \div 256)
    IN  <<r1 % 256, r2 % 256, r3 % 256, r4 % 256>>

WrapAdd(a, b) ==
    LET x == Bytes(a)
        y == Bytes(b)
    IN  FromBytes(Carry(<<x[1] + y[1], x[2] + y[2], x[3] + y[3], x[4] + y[4]>>))

WrapNeg(a) ==
    LET x == Bytes(a)
    IN  FromBytes(Carry(<<256 - x[1], 255 - x[2], 255 - x[3], 255 - x[4]>>))

WrapSub(a, b) == WrapAdd(a, WrapNeg(b))

WrapMul(a, b) ==
    LET x == Bytes(a)
        y == Bytes(b)
    IN  FromBytes(Carry(<<x[1] * y[1],
                          x[1] * y[2] + x[2] * y[1],
                          x[1] * y[3] + x[2] * y[2] + x[3] * y[1],
                          x[1] * y[4] + x[2] * y[3] + x[3] * y[2] + x[4] * y[1]>>))

\* quotient rounded toward zero, for b # 0 and (a, b) # (I32_MIN, -1)
TruncDiv(a, b) ==
    IF b = I32_MIN THEN (IF a = I32_MIN THEN 1 ELSE 0)
    ELSE LET d == IF b < 0 THEN -b ELSE b
             qf == a \div d
             q == IF a < 0 /\ a % d # 0 THEN qf + 1 ELSE qf
         IN  IF b < 0 THEN -q ELSE q

TruncRem(a, b) == a - TruncDiv(a, b) * b

-----------------------------------------------------------------------------
(* IdMap<K, V>: vals is a Vec<Option<V>>                                   *)

\* a compiled representation; tag "None" is Option::None
Slot(tag, kind, ty, n) == [tag |-> tag, kind |-> kind, ty |-> ty, n |-> n]

None == Slot("None", "none", "none", 0)

IdMapNew == << >>

\* a reserve that resizes to new_len whatever the length was
IdMapResize(vals, new_len) ==
    [j \in 1..new_len |-> IF j <= Len(vals) THEN vals[j] ELSE None]

IdMapReserve(vals, new_len) ==
    IF Len(vals) < new_len
    THEN vals \o [j \in 1..(new_len - Len(vals)) |-> None]
    ELSE vals

\* a clear that keeps the slots as they are
IdMapKeep(vals) == vals

IdMapClear(vals) == << >>

\* vals[k.index()] is in bounds
IdMapInBounds(vals, k) == k >= 0 /\ k < Len(vals)

\* get(k) returns (it panics on an index out of bounds and on None)
IdMapHas(vals, k) == IdMapInBounds(vals, k) /\ vals[k + 1].tag # "None"

IdMapGet(vals, k) == vals[k + 1]

IdMapSet(vals, k, v) == [vals EXCEPT ![k + 1] = v]

-----------------------------------------------------------------------------
(* A Dense Index Map on its own: any sequence of reserve, clear, set, get   *)

MapVal == Slot("Some", "val", "none", 1)

InitMapVars ==
    /\ map = IdMapNew
    /\ mapHist = [lastOp |-> "new", last |-> 0, everMax |-> 0, sinceClear |-> 0,
                  got |-> None]

Max(a, b) == IF a >= b THEN a ELSE b

MapReserve(n) ==
    /\ mapHist.lastOp # "panic"
    /\ map' = IdMapReserve(map, n)
    /\ mapHist' = [mapHist EXCEPT !.lastOp = "reserve", !.last = n,
                                  !.everMax = Max(@, n),
                                  !.sinceClear = Max(@, n)]
    /\ UNCHANGED <<genVars, ctxVars>>

MapClear ==
    /\ mapHist.lastOp # "panic"
    /\ map' = IdMapClear(map)
    /\ mapHist' = [mapHist EXCEPT !.lastOp = "clear", !.sinceClear = 0]
    /\ UNCHANGED <<genVars, ctxVars>>

\* set(k, v): indexing vals out of bounds panics
MapSet(k) ==
    /\ mapHist.lastOp # "panic"
    /\ IF IdMapInBounds(map, k)
       THEN /\ map' = IdMapSet(map, k, MapVal)
            /\ mapHist' = [mapHist EXCEPT !.lastOp = "set"]
       ELSE /\ map' = map
            /\ mapHist' = [mapHist EXCEPT !.lastOp = "panic"]
    /\ UNCHANGED <<genVars, ctxVars>>

\* get(k): indexing out of bounds panics, and so does unwrapping None
MapGet(k) ==
    /\ mapHist.lastOp # "panic"
    /\ map' = map
    /\ IF IdMapHas(map, k)
       THEN mapHist' = [mapHist EXCEPT !.lastOp = "get", !.got = IdMapGet(map, k)]
       ELSE mapHist' = [mapHist EXCEPT !.lastOp = "panic"]
    /\ UNCHANGED <<genVars, ctxVars>>

NextIdMap ==
    \/ \E n \in 0..MaxReserve : MapReserve(n)
    \/ MapClear
    \/ \E k \in 0..MaxReserve : MapSet(k)
    \/ \E k \in 0..MaxReserve : MapGet(k)

-----------------------------------------------------------------------------
(* The native context: context() and CodeGen, lines 58-64 and 152-186      *)

Threads == 1..MaxThreads

InitCtxVars ==
    /\ CTX = [t \in Threads |-> 0]
    /\ contexts = {}
    /\ codeGens = << >>
    /\ moduleGens = << >>

\* a context() that builds a context on every call
ContextCreatesAlways(tl, t) == TRUE

\* context(), lines 58-64: the thread_local initialiser runs Context::create
\* on the thread's first access only
ContextCreates(tl, t) == tl[t] = 0

\* CodeGen::new, lines 159-161, called on thread t.  CodeGen holds an
\* Option<&'static Context>, which is neither Send nor Sync, so the value
\* stays on the thread that made it.
CodeGenNew(t) ==
    /\ Len(codeGens) + Len(moduleGens) < MaxGens
    /\ codeGens' = Append(codeGens, [thread |-> t, ctx |-> 0])
    /\ UNCHANGED <<genVars, mapVars, CTX, contexts, moduleGens>>

\* CodeGen::module, lines 164-186, on the CodeGen c:
\* self.ctx.get_or_insert_with(context), then a ModuleGen on that context
CodeGenModule(c) ==
    /\ Len(codeGens) + Len(moduleGens) < MaxGens
    /\ LET t == codeGens[c].thread
           calls == codeGens[c].ctx = 0
           creates == calls /\ ContextCreates(CTX, t)
           ctx == IF ~calls THEN codeGens[c].ctx
                  ELSE IF creates THEN Cardinality(contexts) + 1
                  ELSE CTX[t]
       IN  /\ CTX' = IF creates THEN [CTX EXCEPT ![t] = ctx] ELSE CTX
           /\ contexts' = contexts \cup {ctx}
           /\ codeGens' = [codeGens EXCEPT ![c].ctx = ctx]
           /\ moduleGens' = Append(moduleGens,
                                   [thread |-> t, ctx |-> ctx, codeGen |-> c, live |-> TRUE])
    /\ UNCHANGED <<genVars, mapVars>>

\* a ModuleGen goes out of scope: its module, builders and engine go, the
\* context it refers to does not, lines 196-205
ModuleGenDrop(g) ==
    /\ moduleGens[g].live
    /\ moduleGens' = [moduleGens EXCEPT ![g].live = FALSE]
    /\ UNCHANGED <<genVars, mapVars, CTX, contexts, codeGens>>

NextContext ==
    \/ \E t \in Threads : CodeGenNew(t)
    \/ \E c \in 1..Len(codeGens) : CodeGenModule(c)
    \/ \E g \in 1..Len(moduleGens) : ModuleGenDrop(g)

-----------------------------------------------------------------------------
(* The typed IR the type checker hands over (typeck::Function, Statement)  *)

Stmt(k, dst, x, y, op, ty, args) ==
    [k |-> k, dst |-> dst, x |-> x, y |-> y, op |-> op, ty |-> ty, args |-> args]

SLet(dst, src) == Stmt("Let", dst, src, 0, "", "", << >>)
SStore(dst, src) == Stmt("Store", dst, src, 0, "", "", << >>)
SLoad(dst, src) == Stmt("Load", dst, src, 0, "", "", << >>)
SExtern(dst, src) == Stmt("Extern", dst, src, 0, "", "", << >>)
SFunc(dst, src) == Stmt("Func", dst, src, 0, "", "", << >>)
SConst(dst, ty, v) == Stmt("Const", dst, v, 0, "", ty, << >>)
SBinExpr(dst, lhs, op, rhs) == Stmt("BinExpr", dst, lhs, rhs, op, "", << >>)
SCall(dst, func, args) == Stmt("Call", dst, func, 0, "", "", args)
SReturn(value) == Stmt("Return", 0, value, 0, "", "", << >>)
SReturnVoid == Stmt("ReturnVoid", 0, 0, 0, "", "", << >>)
SUnconditionalJump(id) == Stmt("UnconditionalJump", 0, id, 0, "", "", << >>)
SConditionalJump(bool, then_block, else_block) ==
    Stmt("ConditionalJump", 0, bool, 0, "", "", <<then_block, else_block>>)

Function(name, is_extern, params, returns, temporaries, variables, blocks) ==
    [name |-> name, is_extern |-> is_extern, params |-> params, returns |-> returns,
     temporaries |-> temporaries, variables |-> variables, blocks |-> blocks]

ArithOps == {"Add", "Sub", "Mul", "Div", "Rem"}
CmpOps == {"Eq", "Neq", "Lt", "Le", "Gt", "Ge"}

\* the type the type checker gives the result of a binary expression
BinExprType(ty, op) == IF op \in CmpOps THEN "Bool" ELSE ty

\* AsLlvm::as_llvm_meta: the native parameter a type maps to, "none" if none
AsLlvmMeta(ty) ==
    CASE ty = "I32" -> "i32"
      [] ty = "Bool" -> "i1"
      [] OTHER -> "none"

(* The programs the model draws from, as the type checker would emit them; *)
(* base is the FuncId of the first function of the program.                *)

\* t0 = a; t1 = b; t2 = t0 op t1; return
ProgArith(op, a, b) ==
    << Function("main", FALSE, << >>, "Void",
                <<"I32", "I32", BinExprType("I32", op)>>, << >>,
                << <<SConst(0, "I32", a), SConst(1, "I32", b),
                     SBinExpr(2, 0, op, 1), SReturnVoid>> >>) >>

\* a variable written on one branch and read after the join
ProgVars(a, b) ==
    << Function("main", FALSE, << >>, "Void",
                <<"I32", "Bool", "Bool", "Bool", "I32", "I32">>, <<"I32", "I32">>,
                << <<SConst(0, "I32", a), SLet(0, 0),
                     SConst(1, "Bool", 1), SConst(2, "Bool", 0),
                     SBinExpr(3, 1, "And", 2), SConditionalJump(3, 1, 2)>>,
                   <<SConst(4, "I32", b), SStore(0, 4), SLet(1, 4),
                     SUnconditionalJump(2)>>,
                   <<SLoad(5, 0), SReturnVoid>> >>) >>

\* f calls g, defined after it; g holds f in a variable and calls it on a
\* branch that is not taken
ProgMutual(base) ==
    << Function("f", FALSE, << >>, "Void", <<"Fn", "Void">>, << >>,
                << <<SFunc(0, base + 1), SCall(1, 0, << >>), SReturnVoid>> >>),
       Function("g", FALSE, << >>, "Void", <<"Fn", "Fn", "Bool", "Void">>, <<"Fn">>,
                << <<SFunc(0, base), SLet(0, 0), SLoad(1, 0),
                     SConst(2, "Bool", 0), SConditionalJump(2, 1, 2)>>,
                   <<SCall(3, 1, << >>), SUnconditionalJump(2)>>,
                   <<SReturnVoid>> >>) >>

\* the value a caller passes for the j-th parameter
ArgLiteral(j) == 40 + j

\* the statements calling extern e, using temporaries t0 .. t0 + Len(params) + 1
ExternCall(fns, e, t0) ==
    LET n == Len(fns[e + 1].params)
    IN  <<SExtern(t0, e)>>
        \o [j \in 1..n |-> SConst(t0 + j, fns[e + 1].params[j], ArgLiteral(j))]
        \o <<SCall(t0 + n + 1, t0, [j \in 1..n |-> t0 + j])>>

ExternCallTypes(fns, e) ==
    <<"Fn">> \o fns[e + 1].params \o <<fns[e + 1].returns>>

RECURSIVE ExternCalls(_, _, _)
ExternCalls(fns, es, t0) ==
    IF es = << >> THEN << >>
    ELSE ExternCall(fns, Head(es), t0)
         \o ExternCalls(fns, Tail(es), t0 + Len(fns[Head(es) + 1].params) + 2)

RECURSIVE ExternCallsTypes(_, _)
ExternCallsTypes(fns, es) ==
    IF es = << >> THEN << >>
    ELSE ExternCallTypes(fns, Head(es)) \o ExternCallsTypes(fns, Tail(es))

\* the FuncIds of the extern functions, ascending
RECURSIVE ExternIds(_, _)
ExternIds(fns, from) ==
    IF from >= Len(fns) THEN << >>
    ELSE (IF fns[from + 1].is_extern THEN <<from>> ELSE << >>)
         \o ExternIds(fns, from + 1)

Reverse(s) == [j \in 1..Len(s) |-> s[Len(s) + 1 - j]]

\* main calls every extern in the order es
ProgCallExterns(fns, es) ==
    << Function("main", FALSE, << >>, "Void", ExternCallsTypes(fns, es), << >>,
                << ExternCalls(fns, es, 0) \o <<SReturnVoid>> >>) >>

\* return a;
ProgReturn(a) ==
    << Function("main", FALSE, << >>, "I32", <<"I32">>, << >>,
                << <<SConst(0, "I32", a), SReturn(0)>> >>) >>

\* two functions; the second uses an id that only the first one has set: a
\* temporary, a variable, or a block
ProgStale(which, a) ==
    << Function("first", FALSE, << >>, "Void", <<"I32">>, <<"I32">>,
                << <<SConst(0, "I32", a), SLet(0, 0), SUnconditionalJump(1)>>,
                   <<SReturnVoid>> >>),
       Function("second", FALSE, << >>, "Void", <<"I32", "I32">>, <<"I32">>,
                << CASE which = "tmp" -> <<SConst(1, "I32", a), SLet(0, 0), SReturnVoid>>
                     [] which = "var" -> <<SConst(0, "I32", a), SStore(0, 0), SReturnVoid>>
                     [] which = "block" -> <<SConst(0, "I32", a), SUnconditionalJump(1)>>
                     [] OTHER -> <<SConst(0, "I32", a), SLet(0, 0), SReturnVoid>> >>) >>

\* a main that declares a parameter
ProgMainParam(a) ==
    << Function("main", FALSE, <<"I32">>, "Void", <<"I32">>, << >>,
                << <<SConst(0, "I32", a), SReturnVoid>> >>) >>

\* a block that ends without a terminator, or goes on after one
ProgUnterminated(which, a) ==
    << Function("main", FALSE, << >>, "Void", <<"I32">>, << >>,
                << IF which = "none"
                   THEN <<SConst(0, "I32", a)>>
                   ELSE <<SReturnVoid, SConst(0, "I32", a), SReturnVoid>> >>) >>

\* a defined function with a parameter of a type without a native form
ProgVoidParam(a) ==
    << Function("main", FALSE, <<"I32", "Void">>, "Void", <<"I32">>, << >>,
                << <<SConst(0, "I32", a), SReturnVoid>> >>) >>

\* if (a op b) goto block 2 else goto block 1, on booleans a, b
ProgCond(op, a, b) ==
    << Function("main", FALSE, << >>, "Void", <<"Bool", "Bool", "Bool">>, << >>,
                << <<SConst(0, "Bool", a), SConst(1, "Bool", b),
                     SBinExpr(2, 0, op, 1), SConditionalJump(2, 2, 1)>>,
                   <<SReturnVoid>>,
                   <<SReturnVoid>> >>) >>

\* a Store to a variable that holds a value, to one that holds a function,
\* and of a temporary that holds a function
ProgStore(which, base, a, b) ==
    << Function("main", FALSE, << >>, "Void",
                IF which = "ok" THEN <<"I32", "I32">>
                ELSE IF which = "dstfn" THEN <<"Fn", "I32">> ELSE <<"I32", "Fn">>,
                IF which = "dstfn" THEN <<"Fn">> ELSE <<"I32">>,
                << <<IF which = "dstfn" THEN SFunc(0, base) ELSE SConst(0, "I32", a),
                     SLet(0, 0),
                     IF which = "srcfn" THEN SFunc(1, base) ELSE SConst(1, "I32", b),
                     SStore(0, 1),
                     SReturnVoid>> >>) >>

\* a Call of a value, a Call with a function as argument, a ConditionalJump
\* on a function, and a Call of a function with a value as argument
ProgKinds(which, base, a) ==
    << Function("main", FALSE, << >>, "Void", <<"Fn", "Fn", "Void">>, << >>,
                << CASE which = "callval" ->
                            <<SConst(0, "I32", a), SCall(2, 0, << >>), SUnconditionalJump(1)>>
                     [] which = "callfnarg" ->
                            <<SFunc(0, base + 1), SFunc(1, base), SCall(2, 0, <<1>>),
                              SUnconditionalJump(1)>>
                     [] which = "condfn" ->
                            <<SFunc(0, base), SConditionalJump(0, 1, 1)>>
                     [] OTHER ->
                            <<SFunc(0, base + 1), SConst(1, "I32", a), SCall(2, 0, <<1>>),
                              SUnconditionalJump(1)>>,
                   <<SReturnVoid>> >>),
       Function("callee", FALSE, <<"I32">>, "Void", << >>, << >>, << <<SReturnVoid>> >>) >>

\* three blocks in which a temporary or a variable is set in one block and
\* read in another: ascending in the block ids, or set in block 2 and read
\* in block 1, with block 0 jumping to block 2 and block 2 to block 1
ProgOrder(which, a) ==
    << Function("main", FALSE, << >>, "Void", <<"I32", "I32">>, <<"I32">>,
                CASE which = "lower" ->
                        << <<SConst(0, "I32", a), SUnconditionalJump(1)>>,
                           <<SLet(0, 0), SUnconditionalJump(2)>>,
                           <<SLoad(1, 0), SReturnVoid>> >>
                  [] which = "higher" ->
                        << <<SUnconditionalJump(2)>>,
                           <<SLet(0, 0), SReturnVoid>>,
                           <<SConst(0, "I32", a), SUnconditionalJump(1)>> >>
                  [] OTHER ->
                        << <<SUnconditionalJump(2)>>,
                           <<SLoad(1, 0), SReturnVoid>>,
                           <<SConst(0, "I32", a), SLet(0, 0), SUnconditionalJump(1)>> >>) >>

\* a block that jumps to itself or on, and one that jumps back or on
ProgLoop(a) ==
    << Function("main", FALSE, << >>, "Void", <<"Bool">>, << >>,
                << <<SConst(0, "Bool", a), SUnconditionalJump(1)>>,
                   <<SConditionalJump(0, 1, 2)>>,
                   <<SConditionalJump(0, 0, 3)>>,
                   <<SReturnVoid>> >>) >>

\* main calls extern e, registered last, passing a literal for every
\* parameter that has a native form and, for every other parameter, the
\* unit value a call of the void function nop has given
ProgCallLast(fns, base, e) ==
    LET params == fns[e + 1].params
        n == Len(params)
    IN  << Function("main", FALSE, << >>, "Void",
                    <<"Fn", "Fn">> \o params \o <<fns[e + 1].returns>>, << >>,
                    << <<SExtern(0, e), SFunc(1, base + 1)>>
                       \o [j \in 1..n |->
                              IF AsLlvmMeta(params[j]) # "none"
                              THEN SConst(1 + j, params[j], ArgLiteral(j))
                              ELSE SCall(1 + j, 1, << >>)]
                       \o <<SCall(n + 2, 0, [j \in 1..n |-> 1 + j]), SReturnVoid>> >>),
           Function("nop", FALSE, << >>, "Void", << >>, << >>, << <<SReturnVoid>> >>) >>

Ast(prog, op) == [prog |-> prog, op |-> op]

\* typeck::Module::process: the functions it adds for ast, or a type error
Process(ast, fns, ab) ==
    LET base == Len(fns)
        new == CASE ast.prog = "arith" -> ProgArith(ast.op, ab[1], ab[2])
                 [] ast.prog = "vars" -> ProgVars(ab[1], ab[2])
                 [] ast.prog = "mutual" -> ProgMutual(base)
                 [] ast.prog = "callext" ->
                        ProgCallExterns(fns, IF ast.op = "asc"
                                             THEN ExternIds(fns, 0)
                                             ELSE Reverse(ExternIds(fns, 0)))
                 [] ast.prog = "return" -> ProgReturn(ab[1])
                 [] ast.prog = "stale" -> ProgStale(ast.op, ab[1])
                 [] ast.prog = "mainparam" -> ProgMainParam(ab[1])
                 [] ast.prog = "calllast" ->
                        IF ExternIds(fns, 0) = << >> THEN << >>
                        ELSE ProgCallLast(fns, base,
                                          ExternIds(fns, 0)[Len(ExternIds(fns, 0))])
                 [] ast.prog = "order" -> ProgOrder(ast.op, ab[1])
                 [] ast.prog = "loop" -> ProgLoop(1)
                 [] ast.prog = "kinds" -> ProgKinds(ast.op, base, ab[1])
                 [] ast.prog = "store" -> ProgStore(ast.op, base, ab[1], ab[2])
                 [] ast.prog = "cond" ->
                        ProgCond(ast.op, IF ab[1] = 0 THEN 0 ELSE 1, IF ab[2] = 0 THEN 0 ELSE 1)
                 [] ast.prog = "voidparam" -> ProgVoidParam(ab[1])
                 [] ast.prog = "unterminated" -> ProgUnterminated(ast.op, ab[1])
                 [] OTHER -> << >>
    IN  [ok |-> ast.prog # "illtyped" /\ (ast.prog = "calllast" => new # << >>),
         fns |-> new, main |-> base]

\* typeck::Module::add_extern: the module with the extern added, and its FuncId
TypesAddExtern(fns, name, ret, params) ==
    [fns |-> Append(fns, Function(name, TRUE, params, ret, << >>, << >>, << >>)),
     id |-> Len(fns)]

-----------------------------------------------------------------------------
(* The native module: functions, blocks, instructions                      *)

\* AsLlvm::as_llvm_fn: the native signature returning ty over param_types
AsLlvmFn(ty, param_types) ==
    [params |-> param_types,
     ret |-> CASE ty = "I32" -> "i32"
               [] ty = "Bool" -> "i1"
               [] OTHER -> "void"]

\* the native parameters of the types that map to one, in order
RECURSIVE FilterMapped(_)
FilterMapped(tys) ==
    IF tys = << >> THEN << >>
    ELSE (IF AsLlvmMeta(Head(tys)) # "none" THEN <<AsLlvmMeta(Head(tys))>> ELSE << >>)
         \o FilterMapped(Tail(tys))

\* params.iter().filter_map(|a| a.as_llvm_meta(self)).collect()
ParamTypes(params) == FilterMapped(params)

\* to_prototype unwraps as_llvm_meta of every parameter: None is a panic
ToPrototypeOk(func) == \A j \in 1..Len(func.params) : AsLlvmMeta(func.params[j]) # "none"

to_prototype(func) ==
    AsLlvmFn(func.returns, [j \in 1..Len(func.params) |-> AsLlvmMeta(func.params[j])])

\* Module::add_function: a function of the given signature, without a body
NativeFn(name, proto) ==
    [name |-> name, params |-> proto.params, ret |-> proto.ret,
     blocks |-> << >>, next |-> 1]

\* compiled representations
ValueOf(kind, ty, n) == Slot("T", kind, ty, n)
FunctionRef(f) == Slot("FunctionValue", "fn", "fn", f)
Some(kind, n) == Slot("Some", kind, "none", n)

\* context().struct_type(&[], false).const_zero()
UnitValue == ValueOf("unit", "unit", 0)

Instr(op, id, ty, a, b, args, sig, t1, t2) ==
    [op |-> op, id |-> id, ty |-> ty, a |-> a, b |-> b, args |-> args,
     sig |-> sig, t1 |-> t1, t2 |-> t2]

Terminators == {"ret", "ret_void", "br", "condbr"}

\* Context::append_basic_block
AppendBlock(mod, f) == [mod EXCEPT ![f].blocks = Append(@, << >>)]

\* a builder positioned at the end of block blk of function f emits op;
\* the instruction is numbered with the function's next value number
Emit(mod, f, blk, op, ty, a, b, args, sig, t1, t2) ==
    [mod EXCEPT ![f].blocks[blk] =
                    Append(@, Instr(op, mod[f].next, ty, a, b, args, sig, t1, t2)),
                ![f].next = @ + 1]

\* the value an instruction emitted next into f defines
NextValue(mod, f, ty) == ValueOf("inst", ty, mod[f].next)

\* an operator table in which Gt has a predicate of its own, signed greater
BinOpInstrGtSgt(ty, op) ==
    CASE ty = "I32" /\ op = "Add" -> "add"
      [] ty = "I32" /\ op = "Sub" -> "sub"
      [] ty = "I32" /\ op = "Mul" -> "mul"
      [] ty = "I32" /\ op = "Div" -> "sdiv"
      [] ty = "I32" /\ op = "Rem" -> "srem"
      [] ty = "I32" /\ op = "Ge" -> "icmp_sge"
      [] ty = "I32" /\ op = "Le" -> "icmp_sle"
      [] ty = "I32" /\ op = "Gt" -> "icmp_sgt"
      [] ty = "I32" /\ op = "Lt" -> "icmp_slt"
      [] ty = "I32" /\ op = "Eq" -> "icmp_eq"
      [] ty = "I32" /\ op = "Neq" -> "icmp_ne"
      [] ty = "Bool" /\ op = "And" -> "and"
      [] ty = "Bool" /\ op = "Or" -> "or"
      [] OTHER -> "todo"

\* an operator table that dispatches on the operator alone
BinOpInstrAnyType(ty, op) ==
    CASE op = "Add" -> "add"
      [] op = "Sub" -> "sub"
      [] op = "Mul" -> "mul"
      [] op = "Div" -> "sdiv"
      [] op = "Rem" -> "srem"
      [] op = "Ge" -> "icmp_sge"
      [] op = "Le" -> "icmp_sle"
      [] op = "Gt" -> "icmp_slt"
      [] op = "Lt" -> "icmp_slt"
      [] op = "Eq" -> "icmp_eq"
      [] op = "Neq" -> "icmp_ne"
      [] op = "And" -> "and"
      [] op = "Or" -> "or"
      [] OTHER -> "todo"

\* the native instruction a (type, op) pair is lowered to; "todo" is todo!()
BinOpInstr(ty, op) ==
    CASE ty = "I32" /\ op = "Add" -> "add"
      [] ty = "I32" /\ op = "Sub" -> "sub"
      [] ty = "I32" /\ op = "Mul" -> "mul"
      [] ty = "I32" /\ op = "Div" -> "sdiv"
      [] ty = "I32" /\ op = "Rem" -> "srem"
      [] ty = "I32" /\ op = "Ge" -> "icmp_sge"
      [] ty = "I32" /\ op = "Le" -> "icmp_sle"
      [] ty = "I32" /\ op = "Gt" -> "icmp_slt"
      [] ty = "I32" /\ op = "Lt" -> "icmp_slt"
      [] ty = "I32" /\ op = "Eq" -> "icmp_eq"
      [] ty = "I32" /\ op = "Neq" -> "icmp_ne"
      [] ty = "Bool" /\ op = "And" -> "and"
      [] ty = "Bool" /\ op = "Or" -> "or"
      [] OTHER -> "todo"

IcmpOps == {"icmp_sge", "icmp_sle", "icmp_sgt", "icmp_slt", "icmp_eq", "icmp_ne"}

\* the native type of the value a binary instruction defines
BinResultType(opcode, operand_ty) == IF opcode \in IcmpOps THEN "i1" ELSE operand_ty

\* one block is well formed: it ends in a terminator and holds no other one
BlockOk(blk) ==
    /\ Len(blk) > 0
    /\ blk[Len(blk)].op \in Terminators
    /\ \A j \in 1..(Len(blk) - 1) : blk[j].op \notin Terminators

\* one instruction is well formed in function fn of module mod
InstrOk(mod, fn, ins) ==
    CASE ins.op = "ret_void" -> fn.ret = "void"
      [] ins.op = "ret" -> fn.ret = ins.a.ty
      [] ins.op = "call" ->
            /\ Len(ins.args) = Len(mod[ins.a.n].params)
            /\ \A j \in 1..Len(ins.args) : ins.args[j].ty = mod[ins.a.n].params[j]
      [] ins.op = "call_indirect" ->
            /\ Len(ins.args) = Len(ins.sig)
            /\ \A j \in 1..Len(ins.args) : ins.args[j].ty = ins.sig[j]
      [] ins.op \in {"add", "sub", "mul", "sdiv", "srem", "and", "or"} \cup IcmpOps ->
            ins.a.ty = ins.b.ty
      [] ins.op = "condbr" -> ins.a.ty = "i1"
      [] OTHER -> TRUE

\* FunctionValue::verify
VerifyFn(mod, f) ==
    \A b \in 1..Len(mod[f].blocks) :
        /\ BlockOk(mod[f].blocks[b])
        /\ \A j \in 1..Len(mod[f].blocks[b]) : InstrOk(mod, mod[f], mod[f].blocks[b][j])

\* a build in which the verification of a finished function is left out
FuncValVerifySkipped(mod, f) == TRUE

\* func_val.verify(true) / wrapper_ptr.verify(true) after a body is complete,
\* lines 557, 618 and 693
FuncValVerify(mod, f) == VerifyFn(mod, f)

\* Module::verify
VerifyModule(mod) == \A f \in 1..Len(mod) : VerifyFn(mod, f)

-----------------------------------------------------------------------------
(* ModuleGen: construction and add                                         *)

Result(k, e, v) == [k |-> k, e |-> e, v |-> v]

\* CodeGen::module: an empty typed module and an empty function map
InitGenVars ==
    /\ types = << >>
    /\ functions = IdMapNew
    /\ module = << >>
    /\ pc = "idle"
    /\ res = Result("none", "", 0)
    /\ fi = 0 /\ bi = 0 /\ si = 1
    /\ func_val = 0
    /\ tmp_map = IdMapNew /\ var_map = IdMapNew /\ block_map = IdMapNew
    /\ main = 0
    /\ entries = {}
    /\ regs = << >>
    /\ stack = << >>
    /\ hostLog = << >>
    /\ nAdds = 0 /\ nRegs = 0 /\ nRuns = 0

\* a panic, todo!() or failed unwrap/expect: the operation never returns
Abort(msg) == pc' = "panic" /\ res' = Result("panic", msg, 0)

\* the programs add is called with
Asts ==
    {Ast("arith", "Add"), Ast("vars", ""), Ast("mutual", ""), Ast("callext", "asc"),
     Ast("callext", "desc"), Ast("return", ""), Ast("illtyped", "")}

\* an add that goes on with whatever the type checker left behind
ProcessNeverFails(r) == FALSE

\* self.types.process(ast)? returns the type error to the caller, line 213
ProcessFailed(r) == ~r.ok

\* add, lines 210-217: type-check, then grow the function map
AddBegin(ast) ==
    /\ pc = "idle"
    /\ nAdds < MaxAdds
    /\ nAdds + nRegs + nRuns < MaxCalls
    /\ nAdds' = nAdds + 1
    /\ LET r == Process(ast, types, lits)
       IN  IF ProcessFailed(r)
           THEN /\ res' = Result("Err", "Type", 0)
                /\ UNCHANGED <<types, functions, pc, fi, main>>
           ELSE /\ types' = types \o r.fns
                /\ main' = r.main
                /\ functions' = IdMapReserve(functions, Len(types'))
                /\ pc' = "proto"
                /\ fi' = 0
                /\ res' = Result("none", "", 0)
    /\ tmp_map' = IdMapNew /\ var_map' = IdMapNew /\ block_map' = IdMapNew
    /\ UNCHANGED <<module, bi, si, func_val, entries, regs, stack, hostLog, lits,
                   nRegs, nRuns, mapVars, ctxVars>>

\* a prototype pass that leaves the registration to a later, lazy lookup
RegisterStubLazily(fmap, i, stub) == fmap

\* the prototype pass registers the stub of function i under FuncId(i)
RegisterStub(fmap, i, stub) == IdMapSet(fmap, i, Some("fn", stub))

\* a prototype pass that builds a stub for extern functions too
SkipNothing(func) == FALSE

\* the prototype pass leaves extern functions alone, lines 222-224
SkipInProto(func) == func.is_extern

\* add, lines 221-232: one iteration of the prototype pass
AddProto ==
    /\ pc = "proto"
    /\ IF fi >= Len(types)
       THEN /\ pc' = "body" /\ fi' = 0
            /\ UNCHANGED <<module, functions, res>>
       ELSE IF SkipInProto(types[fi + 1])
       THEN /\ fi' = fi + 1
            /\ UNCHANGED <<module, functions, pc, res>>
       ELSE IF ~ToPrototypeOk(types[fi + 1])
       THEN /\ Abort("unwrap on None")
            /\ UNCHANGED <<module, functions, fi>>
       ELSE /\ module' = Append(module, NativeFn("fixme-keep-function-name",
                                                 to_prototype(types[fi + 1])))
            /\ functions' = RegisterStub(functions, fi, Len(module) + 1)
            /\ fi' = fi + 1
            /\ UNCHANGED <<pc, res>>
    /\ UNCHANGED <<types, bi, si, func_val, tmp_map, var_map, block_map, main,
                   entries, regs, stack, hostLog, lits, nAdds, nRegs, nRuns, mapVars, ctxVars>>

\* the native block registered for BlockId b: the allocas block is block 1
NativeBlockOf(b) == b + 2

\* a block pass that appends one native block and binds every BlockId to it
MakeBlocksShared(mod, f, bmap, b) ==
    [module |-> AppendBlock(mod, f),
     block_map |-> [j \in 1..Len(bmap) |-> Some("block", Len(mod[f].blocks) + 1)]]

\* add, lines 281-291: one native block per BlockId, in ascending order
RECURSIVE MakeBlocks(_, _, _, _)
MakeBlocks(mod, f, bmap, b) ==
    IF b >= Len(bmap) THEN [module |-> mod, block_map |-> bmap]
    ELSE MakeBlocks(AppendBlock(mod, f), f,
                    IdMapSet(bmap, b, Some("block", Len(mod[f].blocks) + 1)), b + 1)

\* a statement loop that goes where an UnconditionalJump it has just lowered
\* points, instead of on to the next statement
RECURSIVE PositionFollowingJumps(_, _, _)
PositionFollowingJumps(func, b, s) ==
    IF b >= Len(func.blocks) THEN <<Len(func.blocks), 1>>
    ELSE IF s > 1 /\ s - 1 <= Len(func.blocks[b + 1])
            /\ func.blocks[b + 1][s - 1].k = "UnconditionalJump"
    THEN <<func.blocks[b + 1][s - 1].x, 1>>
    ELSE IF s <= Len(func.blocks[b + 1]) THEN <<b, s>>
    ELSE PositionFollowingJumps(func, b + 1, 1)

\* the first statement at or after (b, s): <<number of blocks, 1>> if none
RECURSIVE Position(_, _, _)
Position(func, b, s) ==
    IF b >= Len(func.blocks) THEN <<Len(func.blocks), 1>>
    ELSE IF s <= Len(func.blocks[b + 1]) THEN <<b, s>>
    ELSE Position(func, b + 1, 1)

\* add, lines 264-279 and 564: one iteration of the body pass up to the
\* statement loop, or the return of add once every function is lowered
AddFunc ==
    /\ pc = "body"
    /\ IF fi >= Len(types)
       THEN /\ pc' = "idle"
            /\ res' = Result("Ok", "", main)
            /\ entries' = entries \cup {main}
            /\ tmp_map' = IdMapNew /\ var_map' = IdMapNew /\ block_map' = IdMapNew
            /\ UNCHANGED <<module, fi, bi, si, func_val>>
       ELSE IF types[fi + 1].is_extern
       THEN /\ fi' = fi + 1
            /\ UNCHANGED <<module, pc, res, entries, bi, si, func_val, tmp_map,
                           var_map, block_map>>
       ELSE IF ~IdMapHas(functions, fi)
       THEN /\ Abort("unwrap on None")
            /\ UNCHANGED <<module, entries, fi, bi, si, func_val, tmp_map, var_map,
                           block_map>>
       ELSE LET func == types[fi + 1]
                f == IdMapGet(functions, fi).n
                entry == AppendBlock(module, f)
                made == MakeBlocks(entry, f,
                                   IdMapReserve(IdMapClear(block_map), Len(func.blocks)), 0)
                at == Position(func, 0, 1)
            IN  /\ func_val' = f
                /\ module' = made.module
                /\ block_map' = made.block_map
                /\ tmp_map' = IdMapReserve(IdMapClear(tmp_map), Len(func.temporaries))
                /\ var_map' = IdMapReserve(IdMapClear(var_map), Len(func.variables))
                /\ pc' = "stmt"
                /\ bi' = at[1] /\ si' = at[2]
                /\ UNCHANGED <<res, entries, fi>>
    /\ UNCHANGED <<types, functions, main, regs, stack, hostLog, lits, nAdds, nRegs,
                   nRuns, mapVars, ctxVars>>

-----------------------------------------------------------------------------
(* add, lines 293-550: the statement loop                                  *)

\* what lowering one statement leaves behind; ok = FALSE is a panic
Lowered(mod, tmap, vmap) ==
    [ok |-> TRUE, msg |-> "", module |-> mod, tmp_map |-> tmap, var_map |-> vmap]
Fatal(msg, mod, tmap, vmap) ==
    [ok |-> FALSE, msg |-> msg, module |-> mod, tmp_map |-> tmap, var_map |-> vmap]

\* the native block alloca_builder is positioned at: the "allocas" block,
\* appended first to the function
AllocaBlock == 1

NoArgs == << >>

\* FuncOr::as_t / as_function_value return Some
IsT(slot) == slot.tag = "T"
IsFunctionValue(slot) == slot.tag = "FunctionValue"

\* a Let that gives every source a stack slot, function identities included
LowerLetStmtAlwaysSlot(mod, f, cur, tmap, vmap, st) ==
    IF ~IdMapHas(tmap, st.x) THEN Fatal("unwrap on None", mod, tmap, vmap)
    ELSE LET src == IdMapGet(tmap, st.x)
             ptr == NextValue(mod, f, "ptr")
             m1 == Emit(mod, f, AllocaBlock, "alloca", src.ty, None, None,
                        NoArgs, NoArgs, 0, 0)
         IN  Lowered(Emit(m1, f, cur, "store", "void", ptr, src, NoArgs, NoArgs, 0, 0),
                     tmap, IdMapSet(vmap, st.dst, ptr))

\* a Let that allocates its slot where the statement builder stands
LowerLetStmtInPlace(mod, f, cur, tmap, vmap, st) ==
    IF ~IdMapHas(tmap, st.x) THEN Fatal("unwrap on None", mod, tmap, vmap)
    ELSE LET src == IdMapGet(tmap, st.x)
             ptr == NextValue(mod, f, "ptr")
             m1 == Emit(mod, f, cur, "alloca", src.ty, None, None,
                        NoArgs, NoArgs, 0, 0)
         IN  IF IsT(src)
             THEN Lowered(Emit(m1, f, cur, "store", "void", ptr, src,
                               NoArgs, NoArgs, 0, 0),
                          tmap, IdMapSet(vmap, st.dst, ptr))
             ELSE Lowered(mod, tmap, IdMapSet(vmap, st.dst, src))

\* a Let that allocates and binds the slot but does not initialise it
LowerLetStmtNoStore(mod, f, cur, tmap, vmap, st) ==
    IF ~IdMapHas(tmap, st.x) THEN Fatal("unwrap on None", mod, tmap, vmap)
    ELSE LET src == IdMapGet(tmap, st.x)
             ptr == NextValue(mod, f, "ptr")
             m1 == Emit(mod, f, AllocaBlock, "alloca", src.ty, None, None,
                        NoArgs, NoArgs, 0, 0)
         IN  IF IsT(src)
             THEN Lowered(m1, tmap, IdMapSet(vmap, st.dst, ptr))
             ELSE Lowered(mod, tmap, IdMapSet(vmap, st.dst, src))

\* Statement::Let, lines 298-312
LowerLetStmt(mod, f, cur, tmap, vmap, st) ==
    IF ~IdMapHas(tmap, st.x) THEN Fatal("unwrap on None", mod, tmap, vmap)
    ELSE LET src == IdMapGet(tmap, st.x)
         IN  IF IsT(src)
             THEN LET ptr == NextValue(mod, f, "ptr")
                      m1 == Emit(mod, f, AllocaBlock, "alloca", src.ty, None, None,
                                 NoArgs, NoArgs, 0, 0)
                  IN  IF ~IdMapInBounds(vmap, st.dst)
                      THEN Fatal("index out of bounds", m1, tmap, vmap)
                      ELSE Lowered(Emit(m1, f, cur, "store", "void", ptr, src,
                                        NoArgs, NoArgs, 0, 0),
                                   tmap, IdMapSet(vmap, st.dst, ptr))
             ELSE IF ~IdMapInBounds(vmap, st.dst)
                  THEN Fatal("index out of bounds", mod, tmap, vmap)
                  ELSE Lowered(mod, tmap, IdMapSet(vmap, st.dst, src))

\* a Store that does not look at what kind of binding it is given
LowerStoreStmtUnchecked(mod, f, cur, tmap, vmap, st) ==
    IF ~IdMapHas(vmap, st.dst) \/ ~IdMapHas(tmap, st.x)
    THEN Fatal("unwrap on None", mod, tmap, vmap)
    ELSE Lowered(Emit(mod, f, cur, "store", "void", IdMapGet(vmap, st.dst),
                      IdMapGet(tmap, st.x), NoArgs, NoArgs, 0, 0),
                 tmap, vmap)

\* Statement::Store, lines 313-323
LowerStoreStmt(mod, f, cur, tmap, vmap, st) ==
    IF ~IdMapHas(vmap, st.dst) THEN Fatal("unwrap on None", mod, tmap, vmap)
    ELSE IF ~IsT(IdMapGet(vmap, st.dst))
    THEN Fatal("cannot mutate a function value", mod, tmap, vmap)
    ELSE IF ~IdMapHas(tmap, st.x) THEN Fatal("unwrap on None", mod, tmap, vmap)
    ELSE IF ~IsT(IdMapGet(tmap, st.x))
    THEN Fatal("cannot mutate a function value", mod, tmap, vmap)
    ELSE Lowered(Emit(mod, f, cur, "store", "void", IdMapGet(vmap, st.dst),
                      IdMapGet(tmap, st.x), NoArgs, NoArgs, 0, 0),
                 tmap, vmap)

\* Statement::Load, lines 324-340
LowerLoadStmt(mod, f, cur, tmap, vmap, st, func) ==
    IF ~IdMapHas(vmap, st.x) THEN Fatal("unwrap on None", mod, tmap, vmap)
    ELSE LET src == IdMapGet(vmap, st.x)
         IN  IF IsT(src)
             THEN LET ty == AsLlvmMeta(func.variables[st.x + 1])
                  IN  IF ty = "none" THEN Fatal("unwrap on None", mod, tmap, vmap)
                      ELSE IF ~IdMapInBounds(tmap, st.dst)
                      THEN Fatal("index out of bounds", mod, tmap, vmap)
                      ELSE Lowered(Emit(mod, f, cur, "load", ty, src, None,
                                        NoArgs, NoArgs, 0, 0),
                                   IdMapSet(tmap, st.dst, NextValue(mod, f, ty)), vmap)
             ELSE IF ~IdMapInBounds(tmap, st.dst)
                  THEN Fatal("index out of bounds", mod, tmap, vmap)
                  ELSE Lowered(mod, IdMapSet(tmap, st.dst, src), vmap)

\* Statement::Extern and Statement::Func, lines 341-348
LowerFuncStmt(mod, fmap, tmap, vmap, st) ==
    IF ~IdMapHas(fmap, st.x) THEN Fatal("unwrap on None", mod, tmap, vmap)
    ELSE IF ~IdMapInBounds(tmap, st.dst)
    THEN Fatal("index out of bounds", mod, tmap, vmap)
    ELSE Lowered(mod, IdMapSet(tmap, st.dst, FunctionRef(IdMapGet(fmap, st.x).n)), vmap)

\* Statement::Const, lines 349-351
LowerConstStmt(mod, tmap, vmap, st) ==
    IF AsLlvmMeta(st.ty) = "none" THEN Fatal("unwrap on None", mod, tmap, vmap)
    ELSE IF ~IdMapInBounds(tmap, st.dst)
    THEN Fatal("index out of bounds", mod, tmap, vmap)
    ELSE Lowered(mod, IdMapSet(tmap, st.dst, ValueOf("const", AsLlvmMeta(st.ty), st.x)),
                 vmap)

\* BasicValueEnum::into_int_value returns
IsIntValue(val) == val.ty \in {"i32", "i1"}

\* Statement::BinExpr, lines 352-493
LowerBinExprStmt(mod, f, cur, tmap, vmap, st, func) ==
    IF ~IdMapHas(tmap, st.x) THEN Fatal("unwrap on None", mod, tmap, vmap)
    ELSE IF ~IsT(IdMapGet(tmap, st.x))
    THEN Fatal("cannot operate on a function value", mod, tmap, vmap)
    ELSE IF ~IdMapHas(tmap, st.y) THEN Fatal("unwrap on None", mod, tmap, vmap)
    ELSE IF ~IsT(IdMapGet(tmap, st.y))
    THEN Fatal("cannot operate on a function value", mod, tmap, vmap)
    ELSE LET lhs_val == IdMapGet(tmap, st.x)
             rhs_val == IdMapGet(tmap, st.y)
             opcode == BinOpInstr(func.temporaries[st.x + 1], st.op)
             ty == BinResultType(opcode, lhs_val.ty)
         IN  IF opcode = "todo" THEN Fatal("not yet implemented", mod, tmap, vmap)
             ELSE IF ~IsIntValue(lhs_val) \/ ~IsIntValue(rhs_val)
             THEN Fatal("not an int value", mod, tmap, vmap)
             ELSE IF ~IdMapInBounds(tmap, st.dst)
             THEN Fatal("index out of bounds", mod, tmap, vmap)
             ELSE Lowered(Emit(mod, f, cur, opcode, ty, lhs_val, rhs_val,
                               NoArgs, NoArgs, 0, 0),
                          IdMapSet(tmap, st.dst, NextValue(mod, f, ty)), vmap)

\* a Call that passes its arguments on without looking at their kind
LowerCallStmtAnyArgs(mod, f, cur, tmap, vmap, st) ==
    IF ~IdMapHas(tmap, st.x) \/ \E j \in 1..Len(st.args) : ~IdMapHas(tmap, st.args[j])
    THEN Fatal("unwrap on None", mod, tmap, vmap)
    ELSE IF ~IsFunctionValue(IdMapGet(tmap, st.x))
    THEN Fatal("cannot call a non function", mod, tmap, vmap)
    ELSE LET callee == IdMapGet(tmap, st.x)
             args == [j \in 1..Len(st.args) |-> IdMapGet(tmap, st.args[j])]
             ret == mod[callee.n].ret
             m1 == Emit(mod, f, cur, "call", ret, callee, None, args, NoArgs, 0, 0)
             val == IF ret # "void" THEN NextValue(mod, f, ret) ELSE UnitValue
         IN  Lowered(m1, IdMapSet(tmap, st.dst, val), vmap)

\* a Call that binds dst only when the callee returns a value
LowerCallStmtVoidUnset(mod, f, cur, tmap, vmap, st) ==
    IF ~IdMapHas(tmap, st.x) THEN Fatal("unwrap on None", mod, tmap, vmap)
    ELSE IF ~IsFunctionValue(IdMapGet(tmap, st.x))
    THEN Fatal("cannot call a non function", mod, tmap, vmap)
    ELSE IF \E j \in 1..Len(st.args) : ~IdMapHas(tmap, st.args[j])
    THEN Fatal("unwrap on None", mod, tmap, vmap)
    ELSE IF \E j \in 1..Len(st.args) : ~IsT(IdMapGet(tmap, st.args[j]))
    THEN Fatal("cannot use functions as arguments", mod, tmap, vmap)
    ELSE LET callee == IdMapGet(tmap, st.x)
             args == [j \in 1..Len(st.args) |-> IdMapGet(tmap, st.args[j])]
             ret == mod[callee.n].ret
             m1 == Emit(mod, f, cur, "call", ret, callee, None, args, NoArgs, 0, 0)
         IN  IF ret # "void"
             THEN Lowered(m1, IdMapSet(tmap, st.dst, NextValue(mod, f, ret)), vmap)
             ELSE Lowered(m1, tmap, vmap)

\* Statement::Call, lines 494-523
LowerCallStmt(mod, f, cur, tmap, vmap, st) ==
    IF ~IdMapHas(tmap, st.x) THEN Fatal("unwrap on None", mod, tmap, vmap)
    ELSE IF ~IsFunctionValue(IdMapGet(tmap, st.x))
    THEN Fatal("cannot call a non function", mod, tmap, vmap)
    ELSE IF \E j \in 1..Len(st.args) : ~IdMapHas(tmap, st.args[j])
    THEN Fatal("unwrap on None", mod, tmap, vmap)
    ELSE IF \E j \in 1..Len(st.args) : ~IsT(IdMapGet(tmap, st.args[j]))
    THEN Fatal("cannot use functions as arguments", mod, tmap, vmap)
    ELSE LET callee == IdMapGet(tmap, st.x)
             args == [j \in 1..Len(st.args) |-> IdMapGet(tmap, st.args[j])]
             ret == mod[callee.n].ret
             m1 == Emit(mod, f, cur, "call", ret, callee, None, args, NoArgs, 0, 0)
             val == IF ret # "void" THEN NextValue(mod, f, ret) ELSE UnitValue
         IN  IF ~IdMapInBounds(tmap, st.dst)
             THEN Fatal("index out of bounds", m1, tmap, vmap)
             ELSE Lowered(m1, IdMapSet(tmap, st.dst, val), vmap)

\* a Return that is passed over without a word
LowerReturnStmtSkipped(mod, tmap, vmap) == Lowered(mod, tmap, vmap)

\* Statement::Return, line 524
LowerReturnStmt(mod, tmap, vmap) == Fatal("not yet implemented", mod, tmap, vmap)

\* Statement::ReturnVoid, lines 525-527
LowerReturnVoidStmt(mod, f, cur, tmap, vmap) ==
    Lowered(Emit(mod, f, cur, "ret_void", "void", None, None, NoArgs, NoArgs, 0, 0),
            tmap, vmap)

\* Statement::UnconditionalJump, lines 528-531
LowerUnconditionalJumpStmt(mod, f, cur, bmap, tmap, vmap, st) ==
    IF ~IdMapHas(bmap, st.x) THEN Fatal("unwrap on None", mod, tmap, vmap)
    ELSE Lowered(Emit(mod, f, cur, "br", "void", None, None, NoArgs, NoArgs,
                      IdMapGet(bmap, st.x).n, 0),
                 tmap, vmap)

\* a conditional jump whose two targets are taken in the other order
LowerConditionalJumpStmtSwapped(mod, f, cur, bmap, tmap, vmap, st) ==
    IF ~IdMapHas(tmap, st.x) \/ ~IdMapHas(bmap, st.args[1]) \/ ~IdMapHas(bmap, st.args[2])
    THEN Fatal("unwrap on None", mod, tmap, vmap)
    ELSE Lowered(Emit(mod, f, cur, "condbr", "void", IdMapGet(tmap, st.x), None,
                      NoArgs, NoArgs,
                      IdMapGet(bmap, st.args[2]).n, IdMapGet(bmap, st.args[1]).n),
                 tmap, vmap)

\* Statement::ConditionalJump, lines 532-547
LowerConditionalJumpStmt(mod, f, cur, bmap, tmap, vmap, st) ==
    IF ~IdMapHas(tmap, st.x) THEN Fatal("unwrap on None", mod, tmap, vmap)
    ELSE IF ~IsT(IdMapGet(tmap, st.x))
    THEN Fatal("cannot use functions as values", mod, tmap, vmap)
    ELSE IF ~IsIntValue(IdMapGet(tmap, st.x))
    THEN Fatal("not an int value", mod, tmap, vmap)
    ELSE IF ~IdMapHas(bmap, st.args[1]) \/ ~IdMapHas(bmap, st.args[2])
    THEN Fatal("unwrap on None", mod, tmap, vmap)
    ELSE Lowered(Emit(mod, f, cur, "condbr", "void", IdMapGet(tmap, st.x), None,
                      NoArgs, NoArgs,
                      IdMapGet(bmap, st.args[1]).n, IdMapGet(bmap, st.args[2]).n),
                 tmap, vmap)

\* the function, statement and native block the statement loop is at
CurFunc == types[fi + 1]
CurStmt == CurFunc.blocks[bi + 1][si]
CurBlock == IdMapGet(block_map, bi).n

AtStmt(k) ==
    /\ pc = "stmt"
    /\ bi < Len(CurFunc.blocks)
    /\ CurStmt.k = k

\* the statement is lowered and the loop moves on, or the panic ends add
Commit(out) ==
    /\ module' = out.module
    /\ tmp_map' = out.tmp_map
    /\ var_map' = out.var_map
    /\ IF out.ok
       THEN /\ bi' = Position(CurFunc, bi, si + 1)[1]
            /\ si' = Position(CurFunc, bi, si + 1)[2]
            /\ UNCHANGED <<pc, res>>
       ELSE /\ Abort(out.msg)
            /\ UNCHANGED <<bi, si>>
    /\ UNCHANGED <<types, functions, fi, func_val, block_map, main, entries, regs,
                   stack, hostLog, lits, nAdds, nRegs, nRuns, mapVars, ctxVars>>

LowerLet ==
    AtStmt("Let") /\ Commit(LowerLetStmt(module, func_val, CurBlock, tmp_map, var_map, CurStmt))

LowerStore ==
    AtStmt("Store") /\ Commit(LowerStoreStmt(module, func_val, CurBlock, tmp_map, var_map, CurStmt))

LowerLoad ==
    AtStmt("Load") /\ Commit(LowerLoadStmt(module, func_val, CurBlock, tmp_map, var_map, CurStmt, CurFunc))

LowerExtern ==
    AtStmt("Extern") /\ Commit(LowerFuncStmt(module, functions, tmp_map, var_map, CurStmt))

LowerFunc ==
    AtStmt("Func") /\ Commit(LowerFuncStmt(module, functions, tmp_map, var_map, CurStmt))

LowerConst ==
    AtStmt("Const") /\ Commit(LowerConstStmt(module, tmp_map, var_map, CurStmt))

LowerBinExpr ==
    AtStmt("BinExpr") /\ Commit(LowerBinExprStmt(module, func_val, CurBlock, tmp_map, var_map, CurStmt, CurFunc))

LowerCall ==
    AtStmt("Call") /\ Commit(LowerCallStmt(module, func_val, CurBlock, tmp_map, var_map, CurStmt))

LowerReturn ==
    AtStmt("Return") /\ Commit(LowerReturnStmt(module, tmp_map, var_map))

LowerReturnVoid ==
    AtStmt("ReturnVoid") /\ Commit(LowerReturnVoidStmt(module, func_val, CurBlock, tmp_map, var_map))

LowerUnconditionalJump ==
    AtStmt("UnconditionalJump")
    /\ Commit(LowerUnconditionalJumpStmt(module, func_val, CurBlock, block_map, tmp_map, var_map, CurStmt))

LowerConditionalJump ==
    AtStmt("ConditionalJump")
    /\ Commit(LowerConditionalJumpStmt(module, func_val, CurBlock, block_map, tmp_map, var_map, CurStmt))

\* the branch that leaves the allocas block, lines 552-554
PrologueBranch(mod, f, bmap) ==
    Emit(mod, f, AllocaBlock, "br", "void", None, None, NoArgs, NoArgs,
         IdMapGet(bmap, 0).n, 0)

\* add, lines 552-562: close the allocas block and verify the function
AddFuncEnd ==
    /\ pc = "stmt"
    /\ bi >= Len(CurFunc.blocks)
    /\ IF ~IdMapHas(block_map, 0)
       THEN /\ Abort("unwrap on None")
            /\ UNCHANGED <<module, fi>>
       ELSE /\ module' = PrologueBranch(module, func_val, block_map)
            /\ IF FuncValVerify(module', func_val)
               THEN /\ pc' = "body" /\ fi' = fi + 1 /\ UNCHANGED res
               ELSE /\ Abort("invalid fn") /\ UNCHANGED fi
    /\ UNCHANGED <<types, functions, bi, si, func_val, tmp_map, var_map, block_map,
                   main, entries, regs, stack, hostLog, lits, nAdds, nRegs, nRuns,
                   mapVars, ctxVars>>

-----------------------------------------------------------------------------
(* The extern bridge: add_extern and add_extern_userdata                   *)

\* the parameters of wrapper function f, as values: get_param_iter()
ParamValues(mod, f) == [j \in 1..Len(mod[f].params) |-> ValueOf("param", mod[f].params[j], j)]

\* the arguments of add_extern's indirect call, lines 594-597
ExternArgs(mod, f) == ParamValues(mod, f)

\* a thunk that passes the userdata of the first registration made
UserdataArgsShared(mod, f, userdata) ==
    <<ValueOf("const", "usize", IF regs = << >> THEN userdata ELSE regs[1].userdata)>>
        \o ParamValues(mod, f)

\* the arguments of add_extern_userdata's indirect call, lines 667-672
UserdataArgs(mod, f, userdata) ==
    <<ValueOf("const", "usize", userdata)>> \o ParamValues(mod, f)

\* the thunk body: the pointer, the indirect call, the return (lines 578-616
\* and 654-691); a result that is no integer is a todo!()
Thunk(mod, f, fn_ptr, call_ty, args) ==
    LET m1 == Emit(AppendBlock(mod, f), f, 1, "inttoptr", "ptr",
                   ValueOf("const", "usize", fn_ptr), None, NoArgs, NoArgs, 0, 0)
        ptr == NextValue(mod, f, "ptr")
        val == NextValue(m1, f, call_ty.ret)
        m2 == Emit(m1, f, 1, "call_indirect", call_ty.ret, ptr, None, args,
                   call_ty.params, 0, 0)
    IN  IF call_ty.ret = "void"
        THEN Emit(m2, f, 1, "ret_void", "void", None, None, NoArgs, NoArgs, 0, 0)
        ELSE Emit(m2, f, 1, "ret", "void", val, None, NoArgs, NoArgs, 0, 0)

\* the host functions add_extern is called with: f(x) = x + 1, and a
\* function without parameters or result
HostFns ==
    {[ptr |-> 1, ret |-> "I32", params |-> <<"I32">>],
     [ptr |-> 2, ret |-> "Void", params |-> << >>]}

ExternNames == {"f"}

\* add_extern, lines 567-625
AddExtern(name, f) ==
    /\ pc = "idle"
    /\ nRegs < MaxRegs
    /\ nAdds + nRegs + nRuns < MaxCalls
    /\ nRegs' = nRegs + 1
    /\ LET wrapper_ty == AsLlvmFn(f.ret, ParamTypes(f.params))
           wrapper_ptr == Len(module) + 1
           m1 == Append(module, NativeFn(name, wrapper_ty))
           added == TypesAddExtern(types, name, f.ret, f.params)
       IN  /\ types' = added.fns
           /\ IF ~IdMapInBounds(functions, added.id)
              THEN /\ Abort("index out of bounds")
                   /\ module' = m1
                   /\ UNCHANGED functions
              ELSE /\ functions' = IdMapSet(functions, added.id, Some("fn", wrapper_ptr))
                   /\ module' = Thunk(m1, wrapper_ptr, f.ptr, wrapper_ty,
                                      ExternArgs(m1, wrapper_ptr))
                   /\ IF FuncValVerify(module', wrapper_ptr)
                      THEN pc' = "idle" /\ res' = Result("Ok", "", 0)
                      ELSE Abort("invalid fn")
    /\ UNCHANGED <<fi, bi, si, func_val, tmp_map, var_map, block_map, main, entries,
                   regs, stack, hostLog, lits, nAdds, nRuns, mapVars, ctxVars>>

\* the registrations add_extern_userdata is called with: one host closure
\* body under two names with different userdata, and a name registered again
\* with another signature
ClosurePtrs == {3}
UserdataRegs ==
    {[name |-> "f", userdata |-> 11, ret |-> "I32", params |-> <<"I32">>],
     [name |-> "g", userdata |-> 12, ret |-> "I32", params |-> <<"I32">>],
     [name |-> "g", userdata |-> 11, ret |-> "Void", params |-> << >>]}

\* add_extern_userdata, lines 629-700
AddExternUserdata(name, fn_ptr, userdata, ret, params) ==
    /\ pc = "idle"
    /\ nRegs < MaxRegs
    /\ nAdds + nRegs + nRuns < MaxCalls
    /\ nRegs' = nRegs + 1
    /\ LET wrapped_ty == AsLlvmFn(ret, <<"usize">> \o ParamTypes(params))
           wrapper_ty == AsLlvmFn(ret, ParamTypes(params))
           wrapper_ptr == Len(module) + 1
           m1 == Append(module, NativeFn(name, wrapper_ty))
           added == TypesAddExtern(types, name, ret, params)
           grown == IdMapReserve(functions, added.id + 1)
       IN  /\ types' = added.fns
           /\ functions' = IdMapSet(grown, added.id, Some("fn", wrapper_ptr))
           /\ module' = Thunk(m1, wrapper_ptr, fn_ptr, wrapped_ty,
                              UserdataArgs(m1, wrapper_ptr, userdata))
           /\ regs' = Append(regs, [id |-> added.id, native |-> wrapper_ptr,
                                    name |-> name, fn_ptr |-> fn_ptr,
                                    userdata |-> userdata, params |-> params])
           /\ IF FuncValVerify(module', wrapper_ptr)
              THEN pc' = "idle" /\ res' = Result("Ok", "", 0)
              ELSE Abort("invalid fn")
    /\ UNCHANGED <<fi, bi, si, func_val, tmp_map, var_map, block_map, main, entries,
                   stack, hostLog, lits, nAdds, nRuns, mapVars, ctxVars>>

-----------------------------------------------------------------------------
(* run, and the execution of the native code                               *)

\* what an undefined value or undefined behaviour may turn out as
UndefValues == {0, I32_MIN}

Outcome(ok, v) == [ok |-> ok, v |-> v]

\* a trap, or any value
Undefined == {Outcome(FALSE, 0)} \cup {Outcome(TRUE, u) : u \in UndefValues}

Bit(b) == IF b THEN 1 ELSE 0

\* the results a native binary instruction can produce on operands x, y
ExecBin(opcode, x, y) ==
    CASE opcode = "add" -> {Outcome(TRUE, WrapAdd(x, y))}
      [] opcode = "sub" -> {Outcome(TRUE, WrapSub(x, y))}
      [] opcode = "mul" -> {Outcome(TRUE, WrapMul(x, y))}
      [] opcode = "sdiv" ->
            IF y = 0 \/ (x = I32_MIN /\ y = -1) THEN Undefined
            ELSE {Outcome(TRUE, TruncDiv(x, y))}
      [] opcode = "srem" ->
            IF y = 0 \/ (x = I32_MIN /\ y = -1) THEN Undefined
            ELSE {Outcome(TRUE, TruncRem(x, y))}
      [] opcode = "icmp_sge" -> {Outcome(TRUE, Bit(x >= y))}
      [] opcode = "icmp_sle" -> {Outcome(TRUE, Bit(x <= y))}
      [] opcode = "icmp_sgt" -> {Outcome(TRUE, Bit(x > y))}
      [] opcode = "icmp_slt" -> {Outcome(TRUE, Bit(x < y))}
      [] opcode = "icmp_eq" -> {Outcome(TRUE, Bit(x = y))}
      [] opcode = "icmp_ne" -> {Outcome(TRUE, Bit(x # y))}
      [] opcode = "and" -> {Outcome(TRUE, Bit(x = 1 /\ y = 1))}
      [] opcode = "or" -> {Outcome(TRUE, Bit(x = 1 \/ y = 1))}

BinOpcodes ==
    {"add", "sub", "mul", "sdiv", "srem", "and", "or"} \cup IcmpOps

\* the host functions behind the raw pointers: 1 is f(x) = x + 1, 2 takes and
\* returns nothing, 3 is the closure body g(userdata, x) = userdata + x
HostResult(ptr, argv) ==
    CASE ptr = 1 /\ Len(argv) = 1 -> WrapAdd(argv[1], 1)
      [] ptr = 3 /\ Len(argv) = 2 -> WrapAdd(argv[1], argv[2])
      [] OTHER -> 0

\* the activation of native function f on args
NewFrame(mod, f, args) ==
    [fn |-> f, blk |-> 1, ip |-> 1,
     vals |-> [j \in 1..(mod[f].next - 1) |-> 0],
     mem |-> [j \in 1..(mod[f].next - 1) |-> 0],
     allocd |-> {}, initd |-> {}, args |-> args]

\* the run-time value of an operand
Eval(fr, v) ==
    CASE v.kind = "const" -> v.n
      [] v.kind = "inst" -> fr.vals[v.n]
      [] v.kind = "param" -> fr.args[v.n]
      [] OTHER -> 0

Running(stk, log) == [stack |-> stk, hostLog |-> log, pc |-> "run", res |-> Result("none", "", 0)]
Stopped(stk, log, how) == [stack |-> stk, hostLog |-> log, pc |-> how, res |-> Result(how, "", 0)]

\* the instruction the top frame is at
CurInstr(mod, stk) ==
    mod[stk[Len(stk)].fn].blocks[stk[Len(stk)].blk][stk[Len(stk)].ip]

\* the states one instruction of the top frame can lead to
StepSet(mod, stk, log) ==
    LET top == Len(stk)
        fr == stk[top]
        ins == CurInstr(mod, stk)
        Next1(fr2) == Running([stk EXCEPT ![top] = [fr2 EXCEPT !.ip = @ + 1]], log)
        Def(v) == Next1([fr EXCEPT !.vals[ins.id] = v])
    IN  CASE ins.op = "alloca" -> {Next1([fr EXCEPT !.allocd = @ \cup {ins.id}])}
          [] ins.op = "store" ->
                IF ins.a.n \notin fr.allocd THEN {Stopped(stk, log, "ub")}
                ELSE {Next1([fr EXCEPT !.mem[ins.a.n] = Eval(fr, ins.b),
                                       !.initd = @ \cup {ins.a.n}])}
          [] ins.op = "load" ->
                IF ins.a.n \notin fr.allocd THEN {Stopped(stk, log, "ub")}
                ELSE {Def(v) : v \in IF ins.a.n \in fr.initd
                                     THEN {fr.mem[ins.a.n]} ELSE UndefValues}
          [] ins.op \in BinOpcodes ->
                {IF r.ok THEN Def(r.v) ELSE Stopped(stk, log, "trap") :
                    r \in ExecBin(ins.op, Eval(fr, ins.a), Eval(fr, ins.b))}
          [] ins.op = "inttoptr" -> {Def(Eval(fr, ins.a))}
          [] ins.op = "call" ->
                IF mod[ins.a.n].blocks = << >> THEN {Stopped(stk, log, "trap")}
                ELSE IF top >= MaxDepth THEN {}
                ELSE {Running(Append(stk, NewFrame(mod, ins.a.n,
                                  [j \in 1..Len(ins.args) |-> Eval(fr, ins.args[j])])),
                              log)}
          [] ins.op = "call_indirect" ->
                LET argv == [j \in 1..Len(ins.args) |-> Eval(fr, ins.args[j])]
                    call == [thunk |-> fr.fn, ptr |-> Eval(fr, ins.a), args |-> argv,
                             given |-> fr.args]
                IN  {Running([stk EXCEPT ![top] =
                                  [fr EXCEPT !.ip = @ + 1,
                                             !.vals[ins.id] = HostResult(call.ptr, argv)]],
                             Append(log, call))}
          [] ins.op \in {"ret", "ret_void"} ->
                LET v == IF ins.op = "ret" THEN Eval(fr, ins.a) ELSE 0
                IN  IF top = 1
                    THEN {[stack |-> << >>, hostLog |-> log, pc |-> "idle",
                           res |-> Result("ran", "", v)]}
                    ELSE LET caller == stk[top - 1]
                             at == mod[caller.fn].blocks[caller.blk][caller.ip]
                         IN  {Running([SubSeq(stk, 1, top - 1) EXCEPT ![top - 1] =
                                           [caller EXCEPT !.ip = @ + 1,
                                                          !.vals[at.id] = v]], log)}
          [] ins.op = "br" -> {Running([stk EXCEPT ![top] = [fr EXCEPT !.blk = ins.t1, !.ip = 1]], log)}
          [] ins.op = "condbr" ->
                {Running([stk EXCEPT ![top] =
                              [fr EXCEPT !.blk = IF Eval(fr, ins.a) = 1 THEN ins.t1 ELSE ins.t2,
                                         !.ip = 1]], log)}

\* a run that validates the signature of main and refuses one with parameters
RunChecksSignature(mod, fmap, m) ==
    /\ VerifyModule(mod)
    /\ IdMapHas(fmap, m)
    /\ mod[IdMapGet(fmap, m).n].params = << >>

\* what run unwraps before it calls into the native code: module.verify()
\* and functions.get(main), lines 707 and 711
RunChecks(mod, fmap, m) ==
    /\ VerifyModule(mod)
    /\ IdMapHas(fmap, m)

\* run, lines 702-713: verify the module, then call main without arguments
RunBegin(m) ==
    /\ pc = "idle"
    /\ nRuns < MaxRuns
    /\ nAdds + nRegs + nRuns < MaxCalls
    /\ nRuns' = nRuns + 1
    /\ IF ~RunChecks(module, functions, m)
       THEN /\ Abort("unwrap failed")
            /\ UNCHANGED stack
       ELSE /\ \E u \in UndefValues :
                 stack' = <<NewFrame(module, IdMapGet(functions, m).n,
                              [j \in 1..Len(module[IdMapGet(functions, m).n].params) |-> u])>>
            /\ pc' = "run"
            /\ res' = Result("none", "", 0)
    /\ UNCHANGED <<types, functions, module, fi, bi, si, func_val, tmp_map, var_map,
                   block_map, main, entries, regs, hostLog, lits, nAdds, nRegs, mapVars, ctxVars>>

\* the native code executes one instruction
RunStep ==
    /\ pc = "run"
    /\ \E nx \in StepSet(module, stack, hostLog) :
          /\ stack' = nx.stack
          /\ hostLog' = nx.hostLog
          /\ pc' = nx.pc
          /\ res' = nx.res
    /\ UNCHANGED <<types, functions, module, fi, bi, si, func_val, tmp_map, var_map,
                   block_map, main, entries, regs, lits, nAdds, nRegs, nRuns, mapVars, ctxVars>>

-----------------------------------------------------------------------------
(* The specifications                                                      *)

Lower ==
    \/ LowerLet
    \/ LowerStore
    \/ LowerLoad
    \/ LowerExtern
    \/ LowerFunc
    \/ LowerConst
    \/ LowerBinExpr
    \/ LowerCall
    \/ LowerReturn
    \/ LowerReturnVoid
    \/ LowerUnconditionalJump
    \/ LowerConditionalJump

Init ==
    /\ InitGenVars
    /\ lits = <<5, 7>>
    /\ InitMapVars
    /\ InitCtxVars

Next ==
    \/ \E ast \in Asts : nAdds < MaxAddsWide /\ AddBegin(ast)
    \/ AddProto
    \/ AddFunc
    \/ Lower
    \/ AddFuncEnd
    \/ \E name \in ExternNames, f \in HostFns : AddExtern(name, f)
    \/ \E p \in ClosurePtrs, r \in UserdataRegs :
            AddExternUserdata(r.name, p, r.userdata, r.ret, r.params)
    \/ \E m \in entries : RunBegin(m)
    \/ RunStep

Spec == Init /\ [][Next]_vars

\* a Dense Index Map under any sequence of its operations
InitIdMap ==
    /\ InitGenVars
    /\ lits = <<5, 7>>
    /\ InitMapVars
    /\ InitCtxVars

SpecIdMap == InitIdMap /\ [][NextIdMap]_vars

SpecContext == Init /\ [][NextContext]_vars

\* the arithmetic program on any two literals, the divisor not zero
I32Samples == {I32_MIN, I32_MIN + 1, -7, -1, 0, 1, 2, 7, 46341, 65536, I32_MAX}

ArithAsts == {Ast("arith", op) : op \in ArithOps}

InitArith ==
    /\ InitGenVars
    /\ lits \in {<<a, b>> : a \in I32Samples, b \in I32Samples \ {0}}
    /\ InitMapVars
    /\ InitCtxVars

NextArith ==
    \/ \E ast \in ArithAsts : nAdds < MaxAddsWide /\ AddBegin(ast)
    \/ AddProto
    \/ AddFunc
    \/ LowerConst
    \/ LowerBinExpr
    \/ LowerReturnVoid
    \/ AddFuncEnd
    \/ \E m \in entries : RunBegin(m)
    \/ RunStep

SpecArith == InitArith /\ [][NextArith]_vars

\* add on programs that exercise one lowering rule each
LowerAsts ==
    {Ast("stale", "tmp"), Ast("stale", "var"), Ast("stale", "block"), Ast("stale", "none"),
     Ast("mutual", ""),
     Ast("store", "ok"), Ast("store", "dstfn"), Ast("store", "srcfn"),
     Ast("kinds", "callval"), Ast("kinds", "callfnarg"), Ast("kinds", "condfn"),
     Ast("kinds", "ok")}

NextLower ==
    \/ \E ast \in LowerAsts : AddBegin(ast)
    \/ AddProto
    \/ AddFunc
    \/ LowerLet
    \/ LowerStore
    \/ LowerLoad
    \/ LowerFunc
    \/ LowerConst
    \/ LowerCall
    \/ LowerReturnVoid
    \/ LowerUnconditionalJump
    \/ LowerConditionalJump
    \/ AddFuncEnd

SpecLower == Init /\ [][NextLower]_vars

\* add on a program that type-checks and on one that does not, and run
TypeErrorAsts ==
    {Ast("arith", "Add"), Ast("arith", "Mul"), Ast("arith", "Sub"), Ast("illtyped", "")}

NextTypeError ==
    \/ \E ast \in TypeErrorAsts : AddBegin(ast)
    \/ AddProto
    \/ AddFunc
    \/ LowerConst
    \/ LowerBinExpr
    \/ LowerReturnVoid
    \/ AddFuncEnd
    \/ \E m \in entries : RunBegin(m)
    \/ RunStep

SpecTypeError == Init /\ [][NextTypeError]_vars

\* add and run on a main without and a main with a declared parameter
RunAsts == {Ast("arith", "Add"), Ast("arith", "Div"), Ast("mainparam", "")}

NextRun ==
    \/ \E ast \in RunAsts : AddBegin(ast)
    \/ AddProto
    \/ AddFunc
    \/ LowerConst
    \/ LowerBinExpr
    \/ LowerReturnVoid
    \/ AddFuncEnd
    \/ \E m \in entries : RunBegin(m)
    \/ RunStep

SpecRun == Init /\ [][NextRun]_vars

\* add on well-formed and on ill-formed blocks, and the userdata bridge
VerifyAsts ==
    {Ast("arith", "Add"), Ast("mutual", ""), Ast("unterminated", "none"),
     Ast("unterminated", "two")}

NextVerify ==
    \/ \E ast \in VerifyAsts : AddBegin(ast)
    \/ AddProto
    \/ AddFunc
    \/ LowerLet
    \/ LowerLoad
    \/ LowerFunc
    \/ LowerConst
    \/ LowerBinExpr
    \/ LowerCall
    \/ LowerReturnVoid
    \/ LowerUnconditionalJump
    \/ LowerConditionalJump
    \/ AddFuncEnd
    \/ \E name \in ExternNames, f \in HostFns : AddExtern(name, f)
    \/ \E p \in ClosurePtrs, r \in UserdataRegs :
            AddExternUserdata(r.name, p, r.userdata, r.ret, r.params)

SpecVerify == Init /\ [][NextVerify]_vars

\* the prototypes of defined functions and of userdata bridges
ProtoAsts == {Ast("arith", "Add"), Ast("mainparam", ""), Ast("voidparam", "")}

NextProto ==
    \/ \E ast \in ProtoAsts : AddBegin(ast)
    \/ AddProto
    \/ AddFunc
    \/ LowerConst
    \/ LowerBinExpr
    \/ LowerReturnVoid
    \/ AddFuncEnd
    \/ \E p \in ClosurePtrs, r \in UserdataRegs :
            AddExternUserdata(r.name, p, r.userdata, r.ret, r.params)

SpecProto == Init /\ [][NextProto]_vars

\* a branch on a boolean And / Or of any two boolean literals
BoolAsts == {Ast("cond", "And"), Ast("cond", "Or")}

InitBool ==
    /\ InitGenVars
    /\ lits \in {<<a, b>> : a \in {0, 1}, b \in {0, 1}}
    /\ InitMapVars
    /\ InitCtxVars

NextBool ==
    \/ \E ast \in BoolAsts : AddBegin(ast)
    \/ AddProto
    \/ AddFunc
    \/ LowerConst
    \/ LowerBinExpr
    \/ LowerConditionalJump
    \/ LowerReturnVoid
    \/ AddFuncEnd
    \/ \E m \in entries : RunBegin(m)
    \/ RunStep

SpecBool == InitBool /\ [][NextBool]_vars

\* a comparison of any two literals
CmpAsts ==
    {Ast("arith", op) : op \in CmpOps \cup {"And", "Or"}}
        \cup {Ast("cond", op) : op \in {"Add", "Lt", "Eq"}}

InitCmp ==
    /\ InitGenVars
    /\ lits \in {<<a, b>> : a \in I32Samples, b \in I32Samples}
    /\ InitMapVars
    /\ InitCtxVars

NextCmp ==
    \/ \E ast \in CmpAsts : nAdds < MaxAddsWide /\ AddBegin(ast)
    \/ AddProto
    \/ AddFunc
    \/ LowerConst
    \/ LowerBinExpr
    \/ LowerReturnVoid
    \/ AddFuncEnd
    \/ \E m \in entries : RunBegin(m)
    \/ RunStep

SpecCmp == InitCmp /\ [][NextCmp]_vars

\* add on functions whose blocks jump forward, back and to themselves, and
\* whose bindings are set in a block with a lower or a higher id than the
\* block that reads them
BlockAsts ==
    {Ast("order", "lower"), Ast("order", "higher"), Ast("order", "varhigher"),
     Ast("loop", ""), Ast("mutual", ""), Ast("stale", "tmp"), Ast("unterminated", "two")}

NextBlocks ==
    \/ \E ast \in BlockAsts : AddBegin(ast)
    \/ AddProto
    \/ AddFunc
    \/ LowerLet
    \/ LowerLoad
    \/ LowerFunc
    \/ LowerConst
    \/ LowerCall
    \/ LowerReturnVoid
    \/ LowerUnconditionalJump
    \/ LowerConditionalJump
    \/ AddFuncEnd

SpecBlocks == Init /\ [][NextBlocks]_vars

\* the bridges a program calls: one over an integer, one over a unit
\* parameter, one over both
CallRegs ==
    {[name |-> "h", userdata |-> 11, ret |-> "I32", params |-> <<"I32">>],
     [name |-> "u", userdata |-> 12, ret |-> "Void", params |-> <<"Void">>],
     [name |-> "w", userdata |-> 13, ret |-> "I32", params |-> <<"I32", "Void">>]}

CallAsts == {Ast("calllast", ""), Ast("mutual", "")}

NextCall ==
    \/ \E ast \in CallAsts : AddBegin(ast)
    \/ AddProto
    \/ AddFunc
    \/ LowerLet
    \/ LowerLoad
    \/ LowerExtern
    \/ LowerFunc
    \/ LowerConst
    \/ LowerCall
    \/ LowerReturnVoid
    \/ LowerUnconditionalJump
    \/ LowerConditionalJump
    \/ AddFuncEnd
    \/ \E p \in ClosurePtrs, r \in CallRegs :
            AddExternUserdata(r.name, p, r.userdata, r.ret, r.params)

SpecCall == Init /\ [][NextCall]_vars

\* one step of an add that is under way: add runs to completion on the
\* calling thread
AddStep ==
    \/ AddProto
    \/ AddFunc
    \/ Lower
    \/ AddFuncEnd

\* the same adds, each running on once it is called
FairBlocks == SpecBlocks /\ WF_vars(AddStep)

-----------------------------------------------------------------------------
(* Properties                                                              *)

\* the FuncIds of the functions add lowers
DefinedIds == {j \in 0..(Len(types) - 1) : ~types[j + 1].is_extern}

\* add is in its body pass
InBodyPass == pc \in {"body", "stmt"}

\* C1: while add lowers bodies, the stub of every non-extern function of the
\* typed module is in the FuncId -> native function map, and a Func{dst, src}
\* statement with a non-extern src is lowered without a panic, whether src is
\* lower or higher than the function being lowered.
C1_StubsBeforeBodies ==
    /\ InBodyPass =>
          \A j \in DefinedIds :
              /\ IdMapHas(functions, j)
              /\ IdMapGet(functions, j).n \in 1..Len(module)
    /\ (AtStmt("Func") /\ CurStmt.x \in DefinedIds) =>
          LowerFuncStmt(module, functions, tmp_map, var_map, CurStmt).ok

\* the statement lowered last, when the loop is inside a block
PrevStmt == CurFunc.blocks[bi + 1][si - 1]
AfterStmt(k) ==
    /\ pc = "stmt"
    /\ bi < Len(CurFunc.blocks)
    /\ si > 1
    /\ PrevStmt.k = k

\* a Func statement naming a function defined later has been lowered, and
\* its temporary holds that function's stub
C1_Witness ==
    /\ AfterStmt("Func")
    /\ PrevStmt.x > fi
    /\ IdMapGet(tmp_map, PrevStmt.dst) = FunctionRef(IdMapGet(functions, PrevStmt.x).n)

\* the slots of an IdMap that hold something
Bound(vals) == {k \in 0..(Len(vals) - 1) : vals[k + 1].tag # "None"}

\* C2: function-identity purity.  While a function is lowered, a bound
\* temporary or variable is a FunctionRef exactly if its static type is a
\* function type, and a materialized Value otherwise.
C2_FunctionIdentityPurity ==
    pc = "stmt" =>
        /\ \A t \in Bound(tmp_map) :
              IF CurFunc.temporaries[t + 1] = "Fn"
              THEN IsFunctionValue(IdMapGet(tmp_map, t))
              ELSE IsT(IdMapGet(tmp_map, t))
        /\ \A v \in Bound(var_map) :
              IF CurFunc.variables[v + 1] = "Fn"
              THEN IsFunctionValue(IdMapGet(var_map, v))
              ELSE IsT(IdMapGet(var_map, v))

\* a function variable, a temporary loaded from it, a constant and the
\* result of a call are all bound
C2_Witness ==
    /\ pc = "stmt"
    /\ \E v \in Bound(var_map) : IsFunctionValue(IdMapGet(var_map, v))
    /\ \E t \in Bound(tmp_map) :
          /\ IsFunctionValue(IdMapGet(tmp_map, t))
          /\ \E b \in 1..Len(CurFunc.blocks) : \E j \in 1..Len(CurFunc.blocks[b]) :
                CurFunc.blocks[b][j].k = "Load" /\ CurFunc.blocks[b][j].dst = t
    /\ \E t \in Bound(tmp_map) : IdMapGet(tmp_map, t).kind = "const"
    /\ \E t \in Bound(tmp_map) : IdMapGet(tmp_map, t).kind = "unit"

\* the native functions add has given a body, complete or in progress
Lowering(f) == pc = "stmt" /\ f = func_val
HasBody(f) == module[f].blocks # << >>
IsThunk(f) == \E b \in 1..Len(module[f].blocks) : \E j \in 1..Len(module[f].blocks[b]) :
                  module[f].blocks[b][j].op = "call_indirect"
LoweredFns == {f \in 1..Len(module) : HasBody(f) /\ ~IsThunk(f)}

\* the value numbers of the allocas of block b of function f
AllocasIn(f, b) ==
    {module[f].blocks[b][j].id : j \in {i \in 1..Len(module[f].blocks[b]) :
                                            module[f].blocks[b][i].op = "alloca"}}

\* C3: alloca dominance.  In every lowered function the allocas block is
\* the first native block, it holds every alloca and nothing else but the
\* branch into block 0 that add emits last, every store and load addresses
\* one of its slots, and in every execution a store or load finds its slot
\* allocated.
C3_AllocaDominance ==
    /\ \A f \in LoweredFns :
          LET blocks == module[f].blocks
              entry == blocks[AllocaBlock]
          IN  /\ \A b \in 1..Len(blocks) : \A j \in 1..Len(blocks[b]) :
                    /\ blocks[b][j].op = "alloca" => b = AllocaBlock
                    /\ blocks[b][j].op \in {"store", "load"} =>
                           blocks[b][j].a.n \in AllocasIn(f, AllocaBlock)
              /\ \A j \in 1..Len(entry) :
                    \/ entry[j].op = "alloca"
                    \/ /\ entry[j].op = "br"
                       /\ j = Len(entry)
                       /\ entry[j].t1 = NativeBlockOf(0)
                       /\ ~Lowering(f)
              /\ (~Lowering(f) /\ pc # "panic") =>
                    (Len(entry) > 0 /\ entry[Len(entry)].op = "br")
    /\ pc # "ub"
    /\ pc = "run" =>
          \A d \in 1..Len(stack) :
              LET fr == stack[d]
                  ins == module[fr.fn].blocks[fr.blk][fr.ip]
              IN  ins.op \in {"store", "load"} => ins.a.n \in fr.allocd

\* a load executes in a block other than the allocas block, its slot
\* allocated, in a function whose second Let sits in a later block
C3_Witness ==
    /\ pc = "run"
    /\ LET fr == stack[Len(stack)]
           ins == CurInstr(module, stack)
       IN  /\ ins.op = "load"
           /\ fr.blk # AllocaBlock
           /\ ins.a.n \in fr.allocd
           /\ Cardinality(fr.allocd) = 2

(* Native signed 32-bit arithmetic, as the host computes it: the exact     *)
(* result reduced to 32 bits.                                              *)

NativeAdd(a, b) ==
    IF b >= 0
    THEN (IF a > I32_MAX - b THEN (a + I32_MIN) + (b + I32_MIN) ELSE a + b)
    ELSE (IF a < I32_MIN - b THEN (a - I32_MIN) + (b - I32_MIN) ELSE a + b)

NativeSub(a, b) ==
    IF b > 0
    THEN (IF a < I32_MIN + b THEN (a - I32_MIN) - (b + I32_MIN) ELSE a - b)
    ELSE (IF a > I32_MAX + b THEN (a + I32_MIN) - (b - I32_MIN) ELSE a - b)

\* a * n for n >= 0, by doubling
RECURSIVE NativeMulNat(_, _)
NativeMulNat(a, n) ==
    IF n = 0 THEN 0
    ELSE LET h == NativeMulNat(NativeAdd(a, a), n \div 2)
         IN  IF n % 2 = 1 THEN NativeAdd(h, a) ELSE h

\* a negative b is -2^31 + (b - I32_MIN), and a * 2^31 is 2^31 or 0 mod 2^32
NativeMul(a, b) ==
    IF b >= 0 THEN NativeMulNat(a, b)
    ELSE NativeAdd(IF a % 2 = 1 THEN I32_MIN ELSE 0, NativeMulNat(a, b - I32_MIN))

\* the quotient overflows: it is 2^31
DivOverflows(a, b) == a = I32_MIN /\ b = -1

NativeI32(op, a, b) ==
    CASE op = "Add" -> NativeAdd(a, b)
      [] op = "Sub" -> NativeSub(a, b)
      [] op = "Mul" -> NativeMul(a, b)
      [] op = "Div" -> IF DivOverflows(a, b) THEN I32_MIN ELSE TruncDiv(a, b)
      [] op = "Rem" -> IF DivOverflows(a, b) THEN 0 ELSE TruncRem(a, b)

\* the typed function whose native code the bottom frame executes
RunningFunc ==
    types[(CHOOSE j \in DefinedIds : IdMapGet(functions, j).n = stack[1].fn) + 1]

\* the binary expression of the arithmetic program that executes
RunningOp == RunningFunc.blocks[1][3].op

\* the arithmetic program stands at its return, its BinExpr executed
ArithExecuted ==
    /\ pc = "run"
    /\ Len(stack) = 1
    /\ CurInstr(module, stack).op = "ret_void"
    /\ stack[1].ip > 1

\* the value the executed BinExpr left
ArithValue ==
    stack[1].vals[module[stack[1].fn].blocks[stack[1].blk][stack[1].ip - 1].id]

\* C4 as claimed: for all a, b with b # 0 and each of Add, Sub, Mul, Div, Rem
\* the lowered program computes the native result and does not trap,
\* a = i32::MIN with b = -1 included.
C4_RoundTripArithmetic ==
    /\ pc # "trap"
    /\ ArithExecuted => ArithValue = NativeI32(RunningOp, lits[1], lits[2])

\* What does hold of C4: the same, except for Div and Rem on a = i32::MIN,
\* b = -1, where the emitted sdiv/srem has no defined result.
C4_RoundTripArithmeticDefined ==
    /\ pc = "trap" =>
          (RunningOp \in {"Div", "Rem"} /\ DivOverflows(lits[1], lits[2]))
    /\ (ArithExecuted
          /\ ~(RunningOp \in {"Div", "Rem"} /\ DivOverflows(lits[1], lits[2]))) =>
          ArithValue = NativeI32(RunningOp, lits[1], lits[2])

\* a product that does not fit in 32 bits has been computed
C4_Witness ==
    /\ ArithExecuted
    /\ RunningOp = "Mul"
    /\ lits = <<46341, 46341>>
    /\ ArithValue = -2147479015

\* the FuncIds of the externs add_extern registered
AddExternIds ==
    {e \in 0..(Len(types) - 1) :
        /\ types[e + 1].is_extern
        /\ \A i \in 1..Len(regs) : regs[i].id # e}

\* native function w is a bridge: it makes the pointer, calls it once with
\* args, and returns the call's result, or nothing when the result is void
IsBridge(w, args) ==
    /\ Len(module[w].blocks) = 1
    /\ Len(module[w].blocks[1]) = 3
    /\ module[w].blocks[1][1].op = "inttoptr"
    /\ module[w].blocks[1][2].op = "call_indirect"
    /\ module[w].blocks[1][2].a = ValueOf("inst", "ptr", module[w].blocks[1][1].id)
    /\ module[w].blocks[1][2].args = args
    /\ IF module[w].ret = "void"
       THEN module[w].blocks[1][3].op = "ret_void"
       ELSE /\ module[w].blocks[1][3].op = "ret"
            /\ module[w].blocks[1][3].a =
                   ValueOf("inst", module[w].ret, module[w].blocks[1][2].id)

\* the native functions add_extern_userdata built
UserdataThunks == {regs[i].native : i \in 1..Len(regs)}

\* C5: every extern registered by add_extern is bound to a thunk that calls
\* the host function once with the thunk's own parameters, unchanged and in
\* order, and returns the host function's result (nothing for void); every
\* host call made through such a thunk received exactly what the thunk did.
C5_ExternBridgeTransparency ==
    /\ \A e \in AddExternIds :
          /\ IdMapHas(functions, e)
          /\ IsBridge(IdMapGet(functions, e).n,
                      ParamValues(module, IdMapGet(functions, e).n))
    /\ \A i \in 1..Len(hostLog) :
          hostLog[i].thunk \notin UserdataThunks =>
              hostLog[i].args = hostLog[i].given

\* the registration behind thunk w
RegOf(w) == regs[CHOOSE i \in 1..Len(regs) : regs[i].native = w]

\* C6: a thunk built by add_extern_userdata shows the signature
\* (params) -> ret without the userdata, and each of its calls passes its own
\* registration's userdata first, then the parameters it was given, to its
\* own registration's fn_ptr.
C6_UserdataClosureIsolation ==
    /\ \A i \in 1..Len(regs) :
          /\ module[regs[i].native].params = ParamTypes(regs[i].params)
          /\ IsBridge(regs[i].native,
                      <<ValueOf("const", "usize", regs[i].userdata)>>
                          \o ParamValues(module, regs[i].native))
    /\ \A i \in 1..Len(hostLog) :
          hostLog[i].thunk \in UserdataThunks =>
              /\ hostLog[i].ptr = RegOf(hostLog[i].thunk).fn_ptr
              /\ hostLog[i].args =
                     <<RegOf(hostLog[i].thunk).userdata>> \o hostLog[i].given

\* two thunks of one fn_ptr were called, each with another userdata
C6_Witness ==
    \E i, j \in 1..Len(hostLog) :
        /\ hostLog[i].thunk # hostLog[j].thunk
        /\ hostLog[i].thunk \in UserdataThunks
        /\ hostLog[j].thunk \in UserdataThunks
        /\ hostLog[i].ptr = hostLog[j].ptr
        /\ hostLog[i].args[1] # hostLog[j].args[1]
        /\ Len(hostLog[i].args) = 2

\* the native functions named name
NativeNamed(name) == {w \in 1..Len(module) : module[w].name = name}

\* C7: a registration under a name already bound adds nothing: no name is
\* bound by two registrations, and a registered name has one native function.
C7_StaticRedefined ==
    /\ \A i, j \in 1..Len(regs) : i # j => regs[i].name # regs[j].name
    /\ \A i \in 1..Len(regs) : NativeNamed(regs[i].name) = {regs[i].native}

\* C8: add_extern completes without a fatal error, on a fresh generator and
\* after any adds and registrations, and the new extern's FuncId is bound to
\* its wrapper in the function map.
C8_AddExternCompletes ==
    /\ ~(pc = "panic" /\ res.e = "index out of bounds" /\ AddExternIds # {})
    /\ \A e \in AddExternIds :
          /\ IdMapHas(functions, e)
          /\ IdMapGet(functions, e).n \in NativeNamed(types[e + 1].name)

\* the FuncId -> thunk binding of registration r is in place
BindingInPlace(r) ==
    /\ IdMapHas(functions, r.id)
    /\ IdMapGet(functions, r.id) = Some("fn", r.native)
    /\ types[r.id + 1].is_extern
    /\ HasBody(r.native)
    /\ VerifyFn(module, r.native)

\* C9: add_extern_userdata completes without a fatal error in every state it
\* is called in, and binds the new FuncId to its thunk; add, before or after,
\* leaves the binding and the thunk as they are.
C9_UserdataBindingStable ==
    /\ [][Len(regs') > Len(regs) => (pc' = "idle" /\ res'.k = "Ok")]_vars
    /\ [](\A i \in 1..Len(regs) : BindingInPlace(regs[i]))

\* an add that lowered a function completed after a registration made before
\* it, and the code it produced called the registration's thunk
C9_Witness ==
    /\ pc = "idle"
    /\ nAdds > 0
    /\ regs # << >>
    /\ regs[1].id = 0
    /\ main > regs[1].id
    /\ \E i \in 1..Len(hostLog) : hostLog[i].thunk = regs[1].native

\* C10 as claimed: after each reserve the number of indexable slots is the
\* max of all n_i seen so far, and after clear it is not below the last
\* reserved value.
C10_SlotMonotonicity ==
    /\ mapHist.lastOp = "reserve" => Len(map) = mapHist.everMax
    /\ mapHist.lastOp = "clear" => Len(map) >= mapHist.last

\* C10, amended: the number of indexable slots is the max of the n_i reserved
\* since the last clear; reserve never lowers it, and clear makes it zero.
C10_SlotsSinceClear ==
    /\ Len(map) = mapHist.sinceClear
    /\ mapHist.lastOp = "clear" => Len(map) = 0
    /\ mapHist.lastOp = "reserve" => Len(map) >= mapHist.last

\* a reserve after a clear left fewer slots than an earlier reserve had made
C10_Witness ==
    /\ mapHist.lastOp = "reserve"
    /\ mapHist.sinceClear > 0
    /\ mapHist.everMax > mapHist.sinceClear
    /\ Len(map) = mapHist.sinceClear

\* the positions <<block, index>> of the statements the loop has lowered in
\* the current function: the blocks before bi, and block bi before si
DonePositions ==
    UNION {{<<b, j>> : j \in {i \in 1..Len(CurFunc.blocks[b]) : b < bi + 1 \/ i < si}} :
              b \in {c \in 1..Len(CurFunc.blocks) : c <= bi + 1}}

StmtAt(p) == CurFunc.blocks[p[1]][p[2]]

\* the ids the current function has set so far
SetTmps ==
    {StmtAt(p).dst : p \in {q \in DonePositions :
        StmtAt(q).k \in {"Load", "Extern", "Func", "Const", "BinExpr", "Call"}}}
SetVars == {StmtAt(p).dst : p \in {q \in DonePositions : StmtAt(q).k = "Let"}}

\* C11: while a function is lowered, the temporary and variable maps bind
\* exactly the ids the statements of this function have set so far (none
\* when its lowering starts) and the block map exactly this function's
\* blocks; a constant set in this function is read back as set; and a
\* statement that gets a temporary, variable or block this function has not
\* set is fatal, whatever an earlier function has set.
C11_MapsClearedBetweenFunctions ==
    pc = "stmt" =>
        /\ Bound(tmp_map) = SetTmps
        /\ Bound(var_map) = SetVars
        /\ Len(tmp_map) = Len(CurFunc.temporaries)
        /\ Len(var_map) = Len(CurFunc.variables)
        /\ Len(block_map) = Len(CurFunc.blocks)
        /\ \A b \in 0..(Len(block_map) - 1) :
              /\ IdMapGet(block_map, b) = Some("block", NativeBlockOf(b))
              /\ NativeBlockOf(b) <= Len(module[func_val].blocks)
        /\ \A p \in DonePositions :
              (StmtAt(p).k = "Const"
                  /\ \A q \in DonePositions :
                        (StmtAt(q).dst = StmtAt(p).dst /\ StmtAt(q).k # "Let") => q = p) =>
                  IdMapGet(tmp_map, StmtAt(p).dst).n = StmtAt(p).x
        /\ (AtStmt("Let") /\ CurStmt.x \notin SetTmps) =>
              ~LowerLetStmt(module, func_val, CurBlock, tmp_map, var_map, CurStmt).ok
        /\ (AtStmt("Store") /\ CurStmt.dst \notin SetVars) =>
              ~LowerStoreStmt(module, func_val, CurBlock, tmp_map, var_map, CurStmt).ok
        /\ (AtStmt("UnconditionalJump") /\ CurStmt.x >= Len(CurFunc.blocks)) =>
              ~LowerUnconditionalJumpStmt(module, func_val, CurBlock, block_map,
                                          tmp_map, var_map, CurStmt).ok

\* the function lowered before the current one
PrevFunc == types[fi]

\* a function after the first has failed on a Let of a temporary that the
\* function before it had set
C11_Witness ==
    /\ pc = "panic" /\ fi > 0 /\ bi < Len(CurFunc.blocks)
    /\ CurStmt.k = "Let"
    /\ \E b \in 1..Len(PrevFunc.blocks) : \E j \in 1..Len(PrevFunc.blocks[b]) :
          PrevFunc.blocks[b][j].k = "Const" /\ PrevFunc.blocks[b][j].dst = CurStmt.x

\* C12: an add whose program fails to type-check returns Err(Type) at once:
\* it adds no native function, leaves the function map, the typed module and
\* the entries returned so far as they were; and run of an entry returned by
\* an earlier add starts executing it, after a failed add as before it.
C12_TypeErrorKeepsState ==
    /\ [][\A ast \in TypeErrorAsts :
            (AddBegin(ast) /\ ~Process(ast, types, lits).ok) =>
                /\ pc' = "idle"
                /\ res' = Result("Err", "Type", 0)
                /\ UNCHANGED <<module, functions, types, entries>>]_vars
    /\ [][(nRuns' = nRuns + 1) => (pc' = "run" /\ HasBody(stack'[1].fn))]_vars

\* an add has just failed after another add had lowered a function, which
\* is still bound, complete and verified
C12_Witness ==
    /\ pc = "idle"
    /\ res = Result("Err", "Type", 0)
    /\ entries # {}
    /\ \A m \in entries :
          /\ IdMapHas(functions, m)
          /\ HasBody(IdMapGet(functions, m).n)
          /\ VerifyFn(module, IdMapGet(functions, m).n)

\* C13: run(main) calls into the native code only when the whole module
\* verifies, and then it does start the native function bound to main,
\* whatever parameters main declares: the call passes no arguments, so the
\* parameters of the callee hold undefined values.  It never returns without
\* calling: a failed verification or an unbound main is a panic.
C13_RunVerifiesThenInvokes ==
    [][\A m \in entries : RunBegin(m) =>
          IF VerifyModule(module) /\ IdMapHas(functions, m)
          THEN /\ pc' = "run"
               /\ Len(stack') = 1
               /\ stack'[1].fn = IdMapGet(functions, m).n
               /\ stack'[1].blk = 1 /\ stack'[1].ip = 1
               /\ \A j \in 1..Len(stack'[1].args) : stack'[1].args[j] \in UndefValues
               /\ Len(stack'[1].args) = Len(types[m + 1].params)
          ELSE pc' = "panic" /\ stack' = stack]_vars

\* the native code of a main that declares a parameter is executing
C13_Witness ==
    /\ pc = "run"
    /\ Len(stack) = 1
    /\ module[stack[1].fn].params # << >>
    /\ stack[1].blk > AllocaBlock
    /\ VerifyModule(module)

\* the native functions whose body is complete: every function that has a
\* body, but the one being lowered
Completed == {f \in 1..Len(module) : HasBody(f) /\ ~Lowering(f)}

\* the last statement loop has ended, and the function it built was verified
AddPanickedAtVerify == pc = "panic" /\ res.e = "invalid fn"

\* C14: every native function body that add or a registration has completed
\* has passed structural verification, unless the operation that completed it
\* has panicked: an operation that returned (Ok or Err) left no completed
\* function that fails verification, and a panic of the verification is never
\* a result.
C14_VerifiedOrFatal ==
    /\ pc # "panic" => \A f \in Completed : VerifyFn(module, f)
    /\ res.k \in {"Ok", "Err"} => (pc = "idle" /\ \A f \in Completed : VerifyFn(module, f))
    /\ AddPanickedAtVerify =>
          (res.k = "panic" /\ \E f \in 1..Len(module) : ~VerifyFn(module, f))

\* add has completed a function whose block has no terminator, and panicked
C14_Witness ==
    /\ AddPanickedAtVerify
    /\ Len(module[func_val].blocks) = 2
    /\ module[func_val].blocks[AllocaBlock] # << >>
    /\ ~BlockOk(module[func_val].blocks[2])

\* the prototype pass has panicked on the function at fi
PrototypePanicked ==
    /\ pc = "panic"
    /\ res.e = "unwrap on None"
    /\ fi < Len(types)
    /\ ~types[fi + 1].is_extern
    /\ ~ToPrototypeOk(types[fi + 1])

\* C15: building a prototype never fails on a parameter type without a
\* native form: the stub of every defined function and the thunk of every
\* bridge has as many native parameters as its parameter types that map to
\* one, the others left out, and the prototype pass does not panic.
C15_PrototypeOmitsUnmapped ==
    /\ ~PrototypePanicked
    /\ pc \in {"body", "stmt", "idle", "run"} =>
          \A j \in DefinedIds :
              IdMapHas(functions, j) =>
                  module[IdMapGet(functions, j).n].params = ParamTypes(types[j + 1].params)
    /\ \A i \in 1..Len(regs) :
          module[regs[i].native].params = ParamTypes(regs[i].params)

\* logical and / or
BoolOp(op, x, y) == IF op = "And" THEN x /\ y ELSE x \/ y

\* the ConditionalJump of the program that executes, and the outcome of its
\* condition on the literals
RunningJump == RunningFunc.blocks[1][4]
CondHolds == BoolOp(RunningFunc.blocks[1][3].op, lits[1] = 1, lits[2] = 1)

\* C16: the native code of ConditionalJump{cond, then, else} goes on in the
\* native block registered for then when cond is true and in the one for else
\* when it is false, cond being the logical and / or of its 1-bit operands;
\* with And on true, false it is the else block.
C16_ConditionalJumpTakesBranch ==
    (pc = "run" /\ Len(stack) = 1) =>
        /\ stack[1].blk \in {AllocaBlock, NativeBlockOf(0),
                             NativeBlockOf(RunningJump.args[IF CondHolds THEN 1 ELSE 2])}
        /\ CurInstr(module, stack).op = "condbr" =>
              Eval(stack[1], CurInstr(module, stack).a) = Bit(CondHolds)
        /\ (RunningFunc.blocks[1][3].op = "And" /\ lits = <<1, 0>>) =>
              stack[1].blk # NativeBlockOf(RunningJump.args[1])

\* And on true, false: execution stands in the else block
C16_Witness ==
    /\ pc = "run" /\ Len(stack) = 1
    /\ RunningFunc.blocks[1][3].op = "And"
    /\ lits = <<1, 0>>
    /\ stack[1].blk = NativeBlockOf(RunningJump.args[2])

\* C17: on I32 operands a, b the lowered Gt computes what the lowered Lt
\* computes: 1 exactly if a < b.
C17_GtIsLt ==
    (ArithExecuted /\ RunningOp \in {"Gt", "Lt"}) =>
        ArithValue = Bit(lits[1] < lits[2])

\* Gt has run on a > b and yielded false
C17_Witness ==
    /\ ArithExecuted
    /\ RunningOp = "Gt"
    /\ lits[1] > lits[2]
    /\ ArithValue = 0

\* block b of function f has grown by exactly the instruction ins, and
\* nothing else in the module has changed
EmittedOne(f, b, op, x, y) ==
    /\ Len(module') = Len(module)
    /\ \A g \in 1..Len(module) : g # f => module'[g] = module[g]
    /\ Len(module'[f].blocks) = Len(module[f].blocks)
    /\ \A c \in 1..Len(module[f].blocks) : c # b => module'[f].blocks[c] = module[f].blocks[c]
    /\ Len(module'[f].blocks[b]) = Len(module[f].blocks[b]) + 1
    /\ SubSeq(module'[f].blocks[b], 1, Len(module[f].blocks[b])) = module[f].blocks[b]
    /\ module'[f].blocks[b][Len(module'[f].blocks[b])].op = op
    /\ module'[f].blocks[b][Len(module'[f].blocks[b])].a = x
    /\ module'[f].blocks[b][Len(module'[f].blocks[b])].b = y

\* the statement loop has gone on to the next statement
WentOn == pc' = "stmt" /\ <<bi', si'>> = Position(CurFunc, bi, si + 1)

\* the statement was fatal, and nothing was emitted or bound
WasFatal(msg) ==
    /\ pc' = "panic" /\ res'.k = "panic" /\ res'.e = msg
    /\ UNCHANGED <<module, tmp_map, var_map, block_map>>

\* C18: Store{dst, src} with dst bound to a stack slot and src to a value
\* emits one store of that value to that slot and changes no binding; with
\* dst or src bound to a function it is fatal, emits nothing and changes no
\* binding.
C18_StoreNeedsSlotAndValue ==
    [][(AtStmt("Store") /\ IdMapHas(var_map, CurStmt.dst) /\ IdMapHas(tmp_map, CurStmt.x)) =>
          IF IsT(IdMapGet(var_map, CurStmt.dst)) /\ IsT(IdMapGet(tmp_map, CurStmt.x))
          THEN /\ WentOn
               /\ EmittedOne(func_val, CurBlock, "store",
                             IdMapGet(var_map, CurStmt.dst), IdMapGet(tmp_map, CurStmt.x))
               /\ UNCHANGED <<tmp_map, var_map, block_map>>
          ELSE WasFatal("cannot mutate a function value")]_vars

\* a Store to a variable bound to a function has been fatal
C18_Witness ==
    /\ pc = "panic"
    /\ res.e = "cannot mutate a function value"
    /\ CurStmt.k = "Store"
    /\ IsFunctionValue(IdMapGet(var_map, CurStmt.dst))
    /\ IsT(IdMapGet(tmp_map, CurStmt.x))

\* the temporaries the current Call reads are bound
CallOperandsBound ==
    /\ IdMapHas(tmp_map, CurStmt.x)
    /\ \A j \in 1..Len(CurStmt.args) : IdMapHas(tmp_map, CurStmt.args[j])

\* C19: a Call whose func is bound to a value, a Call with an argument bound
\* to a function, and a ConditionalJump whose cond is bound to a function are
\* fatal: lowering panics, returns no Result, and emits neither the call nor
\* the branch; a Call of a function on values emits the one call.
C19_WrongKindIsFatal ==
    /\ [][(AtStmt("Call") /\ CallOperandsBound) =>
            IF ~IsFunctionValue(IdMapGet(tmp_map, CurStmt.x))
            THEN WasFatal("cannot call a non function")
            ELSE IF \E j \in 1..Len(CurStmt.args) :
                        IsFunctionValue(IdMapGet(tmp_map, CurStmt.args[j]))
            THEN WasFatal("cannot use functions as arguments")
            ELSE /\ WentOn
                 /\ EmittedOne(func_val, CurBlock, "call", IdMapGet(tmp_map, CurStmt.x), None)]_vars
    /\ [][(AtStmt("ConditionalJump") /\ IdMapHas(tmp_map, CurStmt.x)
                /\ IsFunctionValue(IdMapGet(tmp_map, CurStmt.x))) =>
            WasFatal("cannot use functions as values")]_vars

\* a Call with a function as its argument has been fatal
C19_Witness ==
    /\ pc = "panic"
    /\ res.e = "cannot use functions as arguments"
    /\ CurStmt.k = "Call"
    /\ IsFunctionValue(IdMapGet(tmp_map, CurStmt.x))
    /\ \E j \in 1..Len(CurStmt.args) : IsFunctionValue(IdMapGet(tmp_map, CurStmt.args[j]))

\* the threads whose thread_local CTX has been initialised
Initialised == {t \in Threads : CTX[t] # 0}

\* C20: each thread has at most one native context, made when the first
\* ModuleGen of the thread is made and not before, and never released; the
\* ModuleGens made on one thread, from whichever CodeGen, are all on that
\* thread's context, and ModuleGens made on different threads are on
\* different contexts.
C20_OneContextPerThread ==
    /\ [](/\ \A g, h \in 1..Len(moduleGens) :
                (moduleGens[g].thread = moduleGens[h].thread)
                    <=> (moduleGens[g].ctx = moduleGens[h].ctx)
          /\ \A g \in 1..Len(moduleGens) : moduleGens[g].ctx = CTX[moduleGens[g].thread]
          /\ contexts = {CTX[t] : t \in Initialised}
          /\ Cardinality(contexts) = Cardinality(Initialised)
          /\ \A t \in Threads :
                t \in Initialised <=> \E g \in 1..Len(moduleGens) : moduleGens[g].thread = t)
    /\ [][contexts \subseteq contexts' /\ \A t \in Initialised : CTX'[t] = CTX[t]]_vars

\* two ModuleGens of one thread made from two CodeGens, the first of them
\* dropped since, and a ModuleGen of another thread
C20_Witness ==
    \E g, h, k \in 1..Len(moduleGens) :
        /\ g < h
        /\ moduleGens[g].thread = moduleGens[h].thread
        /\ moduleGens[g].codeGen # moduleGens[h].codeGen
        /\ ~moduleGens[g].live
        /\ moduleGens[g].ctx = moduleGens[h].ctx
        /\ moduleGens[k].thread # moduleGens[g].thread
        /\ moduleGens[k].ctx # moduleGens[g].ctx

\* the statements that end a block
TerminatorStmts == {"Return", "ReturnVoid", "UnconditionalJump", "ConditionalJump"}

\* every block of func ends in one terminator and holds no other one, and
\* func has no Return{value}
WellTerminated(func) ==
    \A b \in 1..Len(func.blocks) :
        /\ func.blocks[b] # << >>
        /\ \A s \in 1..Len(func.blocks[b]) :
              /\ func.blocks[b][s].k # "Return"
              /\ (func.blocks[b][s].k \in TerminatorStmts) <=> (s = Len(func.blocks[b]))

\* the native function of the function being lowered has one block per
\* BlockId and the allocas block, each ending in its one terminator
WellFormedNative(mod, f, func) ==
    /\ Len(mod[f].blocks) = Len(func.blocks) + 1
    /\ \A b \in 1..Len(mod[f].blocks) : BlockOk(mod[f].blocks[b])

\* the blocks a statement jumps to
StmtTargets(st) ==
    CASE st.k = "UnconditionalJump" -> {st.x}
      [] st.k = "ConditionalJump" -> {st.args[1], st.args[2]}
      [] OTHER -> {}

\* the successors of block b in the control-flow graph of func
Succ(func, b) ==
    UNION {StmtTargets(func.blocks[b + 1][s]) : s \in 1..Len(func.blocks[b + 1])}

\* the blocks control reaches from seen without entering a block of avoid
RECURSIVE Reach(_, _, _)
Reach(func, seen, avoid) ==
    LET more == (UNION {Succ(func, b) : b \in seen}) \ (seen \cup avoid)
    IN  IF more = {} THEN seen ELSE Reach(func, seen \cup more, avoid)

\* the blocks control can reach from the entry without passing through d
ReachAvoiding(func, d) == IF d = 0 THEN {} ELSE Reach(func, {0}, {d})

\* the temporaries and variables a statement reads
TmpReads(st) ==
    CASE st.k \in {"Let", "Store", "ConditionalJump"} -> {st.x}
      [] st.k = "BinExpr" -> {st.x, st.y}
      [] st.k = "Call" -> {st.x} \cup {st.args[j] : j \in 1..Len(st.args)}
      [] OTHER -> {}
VarReads(st) ==
    CASE st.k = "Store" -> {st.dst}
      [] st.k = "Load" -> {st.x}
      [] OTHER -> {}

\* the statements that set a temporary
TmpDefs == {"Load", "Extern", "Func", "Const", "BinExpr", "Call"}

\* a statement of one of the kinds sets id and dominates statement s of block b
DefDominates(func, b, s, kinds, id) ==
    \E d \in 0..(Len(func.blocks) - 1) : \E s2 \in 1..Len(func.blocks[d + 1]) :
        /\ func.blocks[d + 1][s2].k \in kinds
        /\ func.blocks[d + 1][s2].dst = id
        /\ IF d = b THEN s2 < s ELSE b \notin ReachAvoiding(func, d)

\* the defining statement of every temporary, and the Let of every variable,
\* dominates all its uses
DominatesUses(func) ==
    \A b \in 0..(Len(func.blocks) - 1) : \A s \in 1..Len(func.blocks[b + 1]) :
        /\ \A t \in TmpReads(func.blocks[b + 1][s]) : DefDominates(func, b, s, TmpDefs, t)
        /\ \A v \in VarReads(func.blocks[b + 1][s]) : DefDominates(func, b, s, {"Let"}, v)

\* C21: add does not panic in the body of a function whose blocks all end in
\* their one terminator, that has no Return{value} and whose definitions
\* dominate their uses, and once its last
\* statement is lowered its native function has one block per BlockId and
\* the allocas block, every one of them ending in exactly one terminator.
C21_WellTerminatedLowersWellFormed ==
    /\ [][(pc = "stmt" /\ WellTerminated(CurFunc) /\ DominatesUses(CurFunc)) =>
            pc' # "panic"]_vars
    /\ [][(pc = "stmt" /\ WellTerminated(CurFunc) /\ bi >= Len(CurFunc.blocks)) =>
            (pc' = "body" /\ WellFormedNative(module', func_val, CurFunc))]_vars

\* what holds of C21: a function whose blocks all end in their one
\* terminator, once its last statement is lowered without a panic, gives a
\* native function of that shape
C21_WellFormedWhenCompleted ==
    [][(pc = "stmt" /\ WellTerminated(CurFunc) /\ bi >= Len(CurFunc.blocks)) =>
            (pc' = "body" /\ WellFormedNative(module', func_val, CurFunc))]_vars

\* add has panicked in the body of a function whose blocks are well
\* terminated, on a temporary that a block with a higher id sets
C21_Witness ==
    /\ pc = "panic" /\ res.e = "unwrap on None"
    /\ fi < Len(types)
    /\ WellTerminated(CurFunc) /\ DominatesUses(CurFunc)
    /\ bi = 1
    /\ CurStmt.k = "Let"

\* C27: in a function whose definitions dominate their uses, every temporary
\* and variable the statement loop is about to read is bound, whichever
\* block ids the defining and the using blocks have.
C27_GetsFindBindings ==
    (pc = "stmt" /\ bi < Len(CurFunc.blocks) /\ DominatesUses(CurFunc)) =>
        /\ \A t \in TmpReads(CurStmt) : IdMapHas(tmp_map, t)
        /\ \A v \in VarReads(CurStmt) : IdMapHas(var_map, v)

\* what holds of C27: the same, of a function in which every definition is
\* also in a block with an id no higher than the blocks that use it
DefsAscend(func) ==
    \A b \in 0..(Len(func.blocks) - 1) : \A s \in 1..Len(func.blocks[b + 1]) :
        /\ \A t \in TmpReads(func.blocks[b + 1][s]) :
              \E d \in 0..b : \E s2 \in 1..Len(func.blocks[d + 1]) :
                  /\ func.blocks[d + 1][s2].k \in TmpDefs /\ func.blocks[d + 1][s2].dst = t
                  /\ (d = b => s2 < s)
        /\ \A v \in VarReads(func.blocks[b + 1][s]) :
              \E d \in 0..b : \E s2 \in 1..Len(func.blocks[d + 1]) :
                  /\ func.blocks[d + 1][s2].k = "Let" /\ func.blocks[d + 1][s2].dst = v
                  /\ (d = b => s2 < s)
C27_GetsFindBindingsAscending ==
    (pc = "stmt" /\ bi < Len(CurFunc.blocks) /\ DominatesUses(CurFunc) /\ DefsAscend(CurFunc)) =>
        /\ \A t \in TmpReads(CurStmt) : IdMapHas(tmp_map, t)
        /\ \A v \in VarReads(CurStmt) : IdMapHas(var_map, v)

\* the statement loop stands at a Load of a variable whose Let, in a block
\* with a higher id, dominates it, and the variable has no binding
C27_Witness ==
    /\ AtStmt("Load")
    /\ DominatesUses(CurFunc)
    /\ ~IdMapHas(var_map, CurStmt.x)

\* block b of native function f has grown by exactly one instruction
GrewByOne(f, b) ==
    /\ Len(module'[f].blocks[b]) = Len(module[f].blocks[b]) + 1
    /\ SubSeq(module'[f].blocks[b], 1, Len(module[f].blocks[b])) = module[f].blocks[b]

\* the instruction at the end of block b of native function f, after the step
LastOf(f, b) == module'[f].blocks[b][Len(module'[f].blocks[b])]

\* var_map differs from what it was in the binding of v at most
OnlyVarSet(v) ==
    /\ Len(var_map') = Len(var_map)
    /\ \A w \in 0..(Len(var_map) - 1) : w # v => IdMapGet(var_map', w) = IdMapGet(var_map, w)

\* C22: Let{dst, src} with src bound to a value allocates exactly one stack
\* slot in the allocas block, stores the value into it at the end of the
\* current block, and binds dst to that slot; with src bound to a function it
\* binds dst to that function and emits nothing.  No other variable and no
\* temporary binding changes.
C22_LetAllocatesOrAliases ==
    [][(AtStmt("Let") /\ IdMapHas(tmp_map, CurStmt.x) /\ IdMapInBounds(var_map, CurStmt.dst)) =>
          /\ WentOn
          /\ tmp_map' = tmp_map
          /\ OnlyVarSet(CurStmt.dst)
          /\ IF IsT(IdMapGet(tmp_map, CurStmt.x))
             THEN /\ Len(module') = Len(module)
                  /\ \A g \in 1..Len(module) : g # func_val => module'[g] = module[g]
                  /\ Len(module'[func_val].blocks) = Len(module[func_val].blocks)
                  /\ \A c \in 1..Len(module[func_val].blocks) :
                        c \notin {AllocaBlock, CurBlock} =>
                            module'[func_val].blocks[c] = module[func_val].blocks[c]
                  /\ CurBlock # AllocaBlock
                  /\ GrewByOne(func_val, AllocaBlock)
                  /\ LastOf(func_val, AllocaBlock).op = "alloca"
                  /\ GrewByOne(func_val, CurBlock)
                  /\ LastOf(func_val, CurBlock).op = "store"
                  /\ LastOf(func_val, CurBlock).b = IdMapGet(tmp_map, CurStmt.x)
                  /\ LastOf(func_val, CurBlock).a = IdMapGet(var_map', CurStmt.dst)
                  /\ IsT(IdMapGet(var_map', CurStmt.dst))
                  /\ IdMapGet(var_map', CurStmt.dst).n = LastOf(func_val, AllocaBlock).id
             ELSE /\ module' = module
                  /\ IdMapGet(var_map', CurStmt.dst) = IdMapGet(tmp_map, CurStmt.x)]_vars

\* a Let of a value has been lowered: its variable is bound to the slot the
\* allocas block allocated last, and the current block ends in the store
C22_Witness ==
    /\ AfterStmt("Let")
    /\ IsT(IdMapGet(tmp_map, PrevStmt.x))
    /\ IsT(IdMapGet(var_map, PrevStmt.dst))
    /\ module[func_val].blocks[AllocaBlock] # << >>
    /\ module[func_val].blocks[AllocaBlock][Len(module[func_val].blocks[AllocaBlock])].id
          = IdMapGet(var_map, PrevStmt.dst).n
    /\ module[func_val].blocks[CurBlock] # << >>
    /\ module[func_val].blocks[CurBlock][Len(module[func_val].blocks[CurBlock])].op = "store"

\* tmp_map differs from what it was in the binding of t at most
OnlyTmpSet(t) ==
    /\ Len(tmp_map') = Len(tmp_map)
    /\ \A u \in 0..(Len(tmp_map) - 1) : u # t => IdMapGet(tmp_map', u) = IdMapGet(tmp_map, u)

\* the current Call is given a function to call and values to pass
CallWellKinded ==
    /\ AtStmt("Call")
    /\ CallOperandsBound
    /\ IsFunctionValue(IdMapGet(tmp_map, CurStmt.x))
    /\ \A j \in 1..Len(CurStmt.args) : IsT(IdMapGet(tmp_map, CurStmt.args[j]))
    /\ IdMapInBounds(tmp_map, CurStmt.dst)

\* C23: Call{dst, func, args} emits exactly one direct call of the function
\* bound to func and binds dst to a value: the result of the call when the
\* callee returns one, the unit value when the callee is void.  dst is
\* never left unset or bound to a function, and no other binding changes.
C23_CallBindsValue ==
    [][CallWellKinded =>
          /\ WentOn
          /\ EmittedOne(func_val, CurBlock, "call", IdMapGet(tmp_map, CurStmt.x), None)
          /\ OnlyTmpSet(CurStmt.dst)
          /\ var_map' = var_map
          /\ IdMapHas(tmp_map', CurStmt.dst)
          /\ IsT(IdMapGet(tmp_map', CurStmt.dst))
          /\ IF module[IdMapGet(tmp_map, CurStmt.x).n].ret = "void"
             THEN IdMapGet(tmp_map', CurStmt.dst) = UnitValue
             ELSE /\ IdMapGet(tmp_map', CurStmt.dst).kind = "inst"
                  /\ IdMapGet(tmp_map', CurStmt.dst).n = LastOf(func_val, CurBlock).id
                  /\ IdMapGet(tmp_map', CurStmt.dst).ty
                        = module[IdMapGet(tmp_map, CurStmt.x).n].ret]_vars

\* a Call of a bridge that returns an integer has been lowered after a Call
\* of a void function: one temporary holds the result, another the unit value
C23_Witness ==
    /\ AfterStmt("Call")
    /\ IdMapGet(tmp_map, PrevStmt.dst).kind = "inst"
    /\ IdMapGet(tmp_map, PrevStmt.dst).ty = "i32"
    /\ \E t \in Bound(tmp_map) : IdMapGet(tmp_map, t) = UnitValue

\* the call instructions of the native module
CallInstrs ==
    UNION {UNION {{<<f, b, k>> : k \in {j \in 1..Len(module[f].blocks[b]) :
                                            module[f].blocks[b][j].op = "call"}} :
                  b \in 1..Len(module[f].blocks)} :
           f \in 1..Len(module)}

\* C28: every call emitted passes as many native arguments as the native
\* signature of its callee has parameters, also when a parameter type of the
\* callee has no native form and is left out of the prototype.
C28_CallArityMatches ==
    \A c \in CallInstrs :
        LET ins == module[c[1]].blocks[c[2]][c[3]]
        IN  Len(ins.args) = Len(module[ins.a.n].params)

\* what holds of C28: a call passes one native argument per argument of the
\* Call statement, as many as the callee has parameters in the typed module
C28_OneArgumentPerIrArgument ==
    [][CallWellKinded =>
          /\ Len(LastOf(func_val, CurBlock).args) = Len(CurStmt.args)
          /\ \A j \in 1..Len(CurStmt.args) :
                LastOf(func_val, CurBlock).args[j] = IdMapGet(tmp_map, CurStmt.args[j])]_vars

\* add has panicked on a function that calls a bridge with one native
\* argument more than the bridge has native parameters
C28_Witness ==
    /\ pc = "panic" /\ res.e = "invalid fn"
    /\ \E c \in CallInstrs :
          LET ins == module[c[1]].blocks[c[2]][c[3]]
          IN  /\ ins.args # << >>
              /\ ins.args[Len(ins.args)] = UnitValue
              /\ Len(ins.args) = Len(module[ins.a.n].params) + 1

\* the BlockIds of the function being lowered
BlockIds == 0..(Len(CurFunc.blocks) - 1)

\* the native block the block map gives BlockId b
Registered(b) == IdMapGet(block_map, b).n

\* C24: from the first statement of a function on, every BlockId has its own
\* native block in the block map, none of them the allocas block, and the
\* map does not change while the function's statements are lowered; an
\* UnconditionalJump{id} branches to the block registered for id and a
\* ConditionalJump to the blocks registered for its two targets, whether the
\* target's id is lower than, equal to or higher than the jumping block's.
C24_JumpsResolveToRegisteredBlocks ==
    /\ [](pc = "stmt" =>
            /\ Len(block_map) = Len(CurFunc.blocks)
            /\ Len(module[func_val].blocks) = Len(CurFunc.blocks) + 1
            /\ \A b \in BlockIds :
                  /\ IdMapHas(block_map, b)
                  /\ Registered(b) \in 1..Len(module[func_val].blocks)
                  /\ Registered(b) # AllocaBlock
            /\ \A b, c \in BlockIds : Registered(b) = Registered(c) => b = c)
    /\ [][(pc = "stmt" /\ pc' = "stmt") => block_map' = block_map]_vars
    /\ [][(AtStmt("UnconditionalJump") /\ CurStmt.x \in BlockIds) =>
            /\ WentOn
            /\ GrewByOne(func_val, CurBlock)
            /\ LastOf(func_val, CurBlock).op = "br"
            /\ LastOf(func_val, CurBlock).t1 = Registered(CurStmt.x)]_vars
    /\ [][(AtStmt("ConditionalJump") /\ IdMapHas(tmp_map, CurStmt.x)
              /\ IsT(IdMapGet(tmp_map, CurStmt.x)) /\ IsIntValue(IdMapGet(tmp_map, CurStmt.x))
              /\ CurStmt.args[1] \in BlockIds /\ CurStmt.args[2] \in BlockIds) =>
            /\ WentOn
            /\ GrewByOne(func_val, CurBlock)
            /\ LastOf(func_val, CurBlock).op = "condbr"
            /\ LastOf(func_val, CurBlock).t1 = Registered(CurStmt.args[1])
            /\ LastOf(func_val, CurBlock).t2 = Registered(CurStmt.args[2])]_vars

\* the instruction at the end of the native block registered for BlockId b
EndOf(b) ==
    module[func_val].blocks[Registered(b)][Len(module[func_val].blocks[Registered(b)])]

\* block 1 has been given a branch to itself or to block 2, and block 2 a
\* branch back to block 0 or on to block 3
C24_Witness ==
    /\ pc = "stmt"
    /\ Len(CurFunc.blocks) = 4
    /\ bi = 3
    /\ EndOf(1).op = "condbr" /\ EndOf(1).t1 = Registered(1) /\ EndOf(1).t2 = Registered(2)
    /\ EndOf(2).op = "condbr" /\ EndOf(2).t1 = Registered(0) /\ EndOf(2).t2 = Registered(3)
    /\ EndOf(0).op = "br" /\ EndOf(0).t1 = Registered(1)

\* the typed functions with a body that holds a Return{value}
WithReturn ==
    {j \in DefinedIds :
        \E b \in 1..Len(types[j + 1].blocks) : \E s \in 1..Len(types[j + 1].blocks[b]) :
            types[j + 1].blocks[b][s].k = "Return"}

\* C25: a Return{value} statement is fatal where it is reached, it emits
\* nothing and binds nothing, and no add on a module that holds one in a
\* function with a body ever returns; a ReturnVoid emits exactly one void
\* return and changes no binding.
C25_ReturnValueIsFatal ==
    /\ [](pc = "idle" => WithReturn = {})
    /\ [][AtStmt("Return") => WasFatal("not yet implemented")]_vars
    /\ [][AtStmt("ReturnVoid") =>
            /\ WentOn
            /\ EmittedOne(func_val, CurBlock, "ret_void", None, None)
            /\ UNCHANGED <<tmp_map, var_map, block_map>>]_vars

\* add has panicked at a Return{value}
C25_Witness ==
    /\ pc = "panic"
    /\ res = Result("panic", "not yet implemented", 0)
    /\ CurStmt.k = "Return"
    /\ WithReturn # {}

\* the (type, op) pairs BinExpr has a native instruction for
Dispatched ==
    {<<"I32", op>> : op \in ArithOps \cup CmpOps} \cup {<<"Bool", "And">>, <<"Bool", "Or">>}

\* the signed comparison of two 32-bit integers
SignedCompare(op, a, b) ==
    CASE op = "Eq" -> a = b
      [] op = "Neq" -> a # b
      [] op = "Lt" -> a < b
      [] op = "Le" -> a <= b
      [] op = "Ge" -> a >= b

\* C26: on I32 operands a, b the lowered Eq, Neq, Lt, Le and Ge compute the
\* signed comparison of a and b; a BinExpr whose (type of lhs, op) is none of
\* I32 with an arithmetic or comparison operator and Bool with And / Or is
\* fatal, emits nothing and binds no dst.
C26_BinExprDispatch ==
    /\ []((ArithExecuted /\ RunningOp \in {"Eq", "Neq", "Lt", "Le", "Ge"}) =>
            ArithValue = Bit(SignedCompare(RunningOp, lits[1], lits[2])))
    /\ [][(AtStmt("BinExpr")
              /\ IdMapHas(tmp_map, CurStmt.x) /\ IsT(IdMapGet(tmp_map, CurStmt.x))
              /\ IdMapHas(tmp_map, CurStmt.y) /\ IsT(IdMapGet(tmp_map, CurStmt.y))) =>
            IF <<CurFunc.temporaries[CurStmt.x + 1], CurStmt.op>> \in Dispatched
            THEN /\ WentOn
                 /\ IdMapHas(tmp_map', CurStmt.dst)
            ELSE /\ WasFatal("not yet implemented")
                 /\ ~IdMapHas(tmp_map', CurStmt.dst)]_vars

\* Ge has run on the least and the greatest 32-bit integer and yielded false
C26_Witness ==
    /\ ArithExecuted
    /\ RunningOp = "Ge"
    /\ lits = <<I32_MIN, I32_MAX>>
    /\ ArithValue = 0

\* the native functions the prototype pass of add has created
Stubs == {f \in 1..Len(module) : module[f].name = "fixme-keep-function-name"}

\* C29: over any sequence of adds, add creates one native function for each
\* function of the typed module that has a body, and no second one: there
\* are never more stubs than such functions, and a FuncId that is bound to a
\* native function with a body stays bound to it.
C29_LoweredExactlyOnce ==
    /\ [](Cardinality(Stubs) <= Cardinality(DefinedIds))
    /\ [][\A j \in DefinedIds :
            (IdMapHas(functions, j) /\ IdMapGet(functions, j).n \in Completed) =>
                IdMapGet(functions', j) = IdMapGet(functions, j)]_vars

\* a second add has returned: the function the first add lowered has two
\* native functions with the same body, and its FuncId is bound to the later
C29_Witness ==
    /\ pc = "idle" /\ res.k = "Ok" /\ nAdds = 2
    /\ \E f, g \in Stubs :
          /\ f < g
          /\ HasBody(f) /\ HasBody(g)
          /\ IdMapGet(functions, 0).n = g
          /\ Len(module[f].blocks) = Len(module[g].blocks)

\* the statement loop has moved from one statement to the very next one of
\* the function, in block order
NextInOrder ==
    \/ bi' = bi /\ si' = si + 1 /\ si' <= Len(CurFunc.blocks[bi + 1])
    \/ /\ bi' > bi
       /\ si = Len(CurFunc.blocks[bi + 1])
       /\ si' = 1
       /\ \A c \in (bi + 1)..(bi' - 1) : CurFunc.blocks[c + 1] = << >>
       /\ bi' < Len(CurFunc.blocks) => CurFunc.blocks[bi' + 1] # << >>

\* C30: an add that is under way ends, in a return or in a panic.  Its
\* statement loop goes from each statement to the next one of the function in
\* ascending block order, whatever the statement jumps to, and its function
\* loops go from each function to the next, so that no block and no
\* statement is lowered twice in one add.
C30_AddTerminates ==
    /\ (pc \notin {"idle", "panic"}) ~> (pc \in {"idle", "panic"})
    /\ [][(pc = "stmt" /\ pc' = "stmt") => (NextInOrder /\ fi' = fi)]_vars
    /\ [][(pc \in {"proto", "body", "stmt"} /\ pc' \in {"proto", "body", "stmt"}) =>
            \/ pc' = pc /\ pc # "stmt" /\ fi' = fi + 1
            \/ pc' = "stmt" /\ fi' = fi
            \/ pc = "stmt" /\ pc' = "body" /\ fi' = fi + 1
            \/ pc = "proto" /\ pc' = "body" /\ fi = Len(types) /\ fi' = 0]_vars

\* an add has returned whose function has a block that jumps to itself and
\* a block that jumps back
C30_Witness ==
    /\ pc = "idle" /\ res.k = "Ok"
    /\ \E j \in DefinedIds :
          /\ \E b \in 0..(Len(types[j + 1].blocks) - 1) : b \in Succ(types[j + 1], b)
          /\ \E b \in 0..(Len(types[j + 1].blocks) - 1) :
                \E c \in Succ(types[j + 1], b) : c < b
          /\ HasBody(IdMapGet(functions, j).n)

====
